---- MODULE Spec2Model ----
(***************************************************************************)
(* Model of the FTP server session engine of eriksuman/goftp               *)
(* (package ftp: server.go, the command handlers, serverDataConn.go).      *)
(*                                                                         *)
(* Strings are sequences of lexemes: a lexeme is a separator character     *)
(* (" ", "/", ",", "|", ":", "CR", "LF") or a maximal run of other         *)
(* characters                                                              *)
(* ("USER", "alice", "50001").  In addresses "." is a lexeme of             *)
(* its own ("10" "." "0" "." "0" "." "5"); in paths the segment names ".", *)
(* ".." and "readme.txt" are lexemes.  The empty string is <<>>.  The Go   *)
(* string functions are modelled on that alphabet.                         *)
(***************************************************************************)
EXTENDS Integers, Sequences, FiniteSets, TLC

----------------------------------------------------------------------------
(* Bounds of the model *)

\* number of control connections the variables have room for
MaxSessions == 2
\* number of free ephemeral ports (file descriptors) net.Listen can hand out
MaxListeners == 2
\* cap on the accept counter kept per listener
MaxAccepts == 2
\* cap on the time a transfer is observed blocked in the data channel
MaxBusy == 240
\* longest reply message, in lexemes, that Reply.String is applied to
MaxMsgLen == 3

----------------------------------------------------------------------------
(* strings *)

RECURSIVE IndexFrom(_, _, _)
IndexFrom(s, t, i) ==
    IF i > Len(s) THEN 0
    ELSE IF s[i] = t THEN i ELSE IndexFrom(s, t, i + 1)

\* strings.IndexByte, 1-based; 0 where Go returns -1
IndexByte(s, t) == IndexFrom(s, t, 1)

RECURSIVE LastIndexFrom(_, _, _)
LastIndexFrom(s, t, i) ==
    IF i < 1 THEN 0
    ELSE IF s[i] = t THEN i ELSE LastIndexFrom(s, t, i - 1)

LastIndexByte(s, t) == LastIndexFrom(s, t, Len(s))

RECURSIVE TrimLeft(_, _)
TrimLeft(s, cutset) ==
    IF s # <<>> /\ s[1] \in cutset THEN TrimLeft(Tail(s), cutset) ELSE s

RECURSIVE TrimRight(_, _)
TrimRight(s, cutset) ==
    IF s # <<>> /\ s[Len(s)] \in cutset
    THEN TrimRight(SubSeq(s, 1, Len(s) - 1), cutset)
    ELSE s

\* strings.Trim(s, cutset)
Trim(s, cutset) == TrimRight(TrimLeft(s, cutset), cutset)

RECURSIVE Split(_, _)
\* strings.Split(s, sep): the pieces of s between the separators
Split(s, sep) ==
    LET i == IndexByte(s, sep)
    IN  IF i = 0 THEN <<s>>
        ELSE <<SubSeq(s, 1, i - 1)>> \o Split(SubSeq(s, i + 1, Len(s)), sep)

RECURSIVE JoinWith(_, _)
\* strings.Join(parts, sep)
JoinWith(parts, sep) ==
    IF parts = <<>> THEN <<>>
    ELSE IF Len(parts) = 1 THEN parts[1]
    ELSE parts[1] \o <<sep>> \o JoinWith(Tail(parts), sep)

RECURSIVE JoinStr(_, _)
\* strings.Join(parts, sep) for a separator of several lexemes
JoinStr(parts, sep) ==
    IF parts = <<>> THEN <<>>
    ELSE IF Len(parts) = 1 THEN parts[1]
    ELSE parts[1] \o sep \o JoinStr(Tail(parts), sep)

\* strings.Contains(s, t) for a single lexeme t
Contains(s, t) == IndexByte(s, t) # 0

\* strings.ToUpper on one lexeme
UpperLexeme(t) ==
    CASE t = "quit" -> "QUIT"
      [] t = "Quit" -> "QUIT"
      [] t = "user" -> "USER"
      [] t = "pass" -> "PASS"
      [] t = "pwd"  -> "PWD"
      [] t = "list" -> "LIST"
      [] t = "noop" -> "NOOP"
      [] OTHER -> t

\* strings.ToUpper
ToUpper(s) == [i \in 1..Len(s) |-> UpperLexeme(s[i])]

\* strings.ToLower on one lexeme
LowerLexeme(t) ==
    CASE t = "LS" -> "ls"
      [] t = "Ls" -> "ls"
      [] t = "GET" -> "get"
      [] t = "Get" -> "get"
      [] t = "CD" -> "cd"
      [] t = "PWD" -> "pwd"
      [] t = "Pub" -> "pub"
      [] t = "README.txt" -> "readme.txt"
      [] OTHER -> t

\* strings.ToLower
ToLower(s) == [i \in 1..Len(s) |-> LowerLexeme(s[i])]

\* the lexemes that consist of ASCII letters only, by length
Letters3 == {"PWD", "CWD", "pwd"}
Letters4 == {"USER", "PASS", "CDUP", "QUIT", "PASV", "EPSV", "PORT", "EPRT",
             "RETR", "LIST", "HELP", "NOOP", "SYST",
             "quit", "Quit", "user", "pass", "list", "noop"}
LettersLong == {"USERS", "alice", "secret", "hunter"}

\* regexp "^[a-zA-Z]{3,4} *.*": not anchored at the end, so a line matches
\* exactly when it starts with at least three letters
commandRegex(msg) ==
    msg # <<>> /\ msg[1] \in Letters3 \cup Letters4 \cup LettersLong

----------------------------------------------------------------------------
(* package path, os.Lstat *)

\* path.IsAbs
IsAbs(p) == p # <<>> /\ p[1] = "/"

RECURSIVE CleanSegs(_, _, _)
CleanSegs(segs, out, rooted) ==
    IF segs = <<>> THEN out
    ELSE LET e == Head(segs)
             rest == Tail(segs)
         IN  IF e = <<>> \/ e = <<".">> THEN CleanSegs(rest, out, rooted)
             ELSE IF e = <<"..">>
             THEN IF out # <<>> /\ out[Len(out)] # <<"..">>
                  THEN CleanSegs(rest, SubSeq(out, 1, Len(out) - 1), rooted)
                  ELSE IF rooted THEN CleanSegs(rest, out, rooted)
                  ELSE CleanSegs(rest, Append(out, e), rooted)
             ELSE CleanSegs(rest, Append(out, e), rooted)

\* path.Clean
Clean(p) ==
    IF p = <<>> THEN <<".">>
    ELSE LET rooted == p[1] = "/"
             body == JoinWith(CleanSegs(Split(p, "/"), <<>>, rooted), "/")
         IN  IF rooted THEN <<"/">> \o body
             ELSE IF body = <<>> THEN <<".">> ELSE body

\* path.Join of two elements: empty elements are ignored, the result is
\* cleaned, and the join of nothing but empty elements is ""
Join(a, b) ==
    IF a = <<>> /\ b = <<>> THEN <<>>
    ELSE IF a = <<>> THEN Clean(b)
    ELSE IF b = <<>> THEN Clean(a)
    ELSE Clean(a \o <<"/">> \o b)

\* the server's file system: canonical segment lists and what is there
\* (no symbolic links; the tree does not change while the server runs)
FileSystem ==
    (<<>> :> "dir") @@ (<<"srv">> :> "dir") @@ (<<"srv", "pub">> :> "dir")
    @@ (<<"srv", "readme.txt">> :> "file")

\* the working directory of the server process (os.Getwd), and its node
Getwd == <<"/", "srv">>
GetwdNode == <<"srv">>

RECURSIVE Walk(_, _)
\* resolution of the path segments segs from the node cur, as the kernel
\* does it: a segment is looked up in a directory only
Walk(cur, segs) ==
    IF cur = "ENOENT" \/ cur = "ENOTDIR" THEN cur
    ELSE IF segs = <<>> THEN cur
    ELSE IF FileSystem[cur] # "dir" THEN "ENOTDIR"
    ELSE LET e == Head(segs)
         IN  IF e = <<>> \/ e = <<".">> THEN Walk(cur, Tail(segs))
             ELSE IF e = <<"..">>
             THEN Walk(IF cur = <<>> THEN cur
                       ELSE SubSeq(cur, 1, Len(cur) - 1), Tail(segs))
             ELSE IF Len(e) = 1 /\ Append(cur, e[1]) \in DOMAIN FileSystem
             THEN Walk(Append(cur, e[1]), Tail(segs))
             ELSE "ENOENT"

\* os.Lstat(p): "dir", "file", or the error
Lstat(p) ==
    IF p = <<>> THEN "ENOENT"
    ELSE LET start == IF IsAbs(p) THEN <<>> ELSE GetwdNode
             node == Walk(start, Split(p, "/"))
         IN  IF node = "ENOENT" \/ node = "ENOTDIR" THEN node
             ELSE FileSystem[node]

----------------------------------------------------------------------------
(* package net, fmt *)

\* the ports the address codec is exercised with
PortSamples == {0, 1, 21, 255, 256, 1024, 50000, 65280, 65535}
\* the numbers that occur as decimal numerals in the model's inputs
Numerals == (0..255) \cup {40000, 40001, 40002, 50000} \cup PortSamples

\* fmt.Sprintf("%d", n)
FormatInt(n) == <<ToString(n)>>

\* fmt.Sscanf(s, "%d", &n): the number read, or -1 when the scan fails.
\* The scan skips leading spaces, reads the numeral the text begins with
\* and leaves what follows it.
ScanInt(s) ==
    LET t == TrimLeft(s, {" "})
    IN  IF t # <<>> /\ \E n \in Numerals : ToString(n) = t[1]
        THEN CHOOSE n \in Numerals : ToString(n) = t[1]
        ELSE -1

NoAddr == [host |-> <<>>, port |-> <<>>, err |-> TRUE]

\* net.SplitHostPort
SplitHostPort(addr) ==
    LET i == LastIndexByte(addr, ":")
    IN  IF i = 0 THEN NoAddr
        ELSE IF addr[1] = "["
        THEN LET j == IndexByte(addr, "]")
             IN  IF j = 0 \/ j + 1 # i THEN NoAddr
                 ELSE [host |-> SubSeq(addr, 2, j - 1),
                       port |-> SubSeq(addr, i + 1, Len(addr)),
                       err |-> FALSE]
        ELSE IF IndexByte(SubSeq(addr, 1, i - 1), ":") # 0 THEN NoAddr
        ELSE [host |-> SubSeq(addr, 1, i - 1),
              port |-> SubSeq(addr, i + 1, Len(addr)),
              err |-> FALSE]

\* net.JoinHostPort
JoinHostPort(host, port) ==
    IF IndexByte(host, ":") # 0
    THEN <<"[">> \o host \o <<"]", ":">> \o port
    ELSE host \o <<":">> \o port

IsOctet(s) == ScanInt(s) \in 0..255

HexGroups == {"0", "1", "fe80"}

\* net.ParseIP: "v4", "v6", or "nil" for text that is not an IP literal
ParseIP(s) ==
    IF Len(s) = 7 /\ s[2] = "." /\ s[4] = "." /\ s[6] = "."
       /\ (\A i \in {1, 3, 5, 7} : IsOctet(<<s[i]>>))
    THEN "v4"
    ELSE IF Len(s) >= 2
            /\ (\A i \in 1..Len(s) : s[i] = ":" \/ s[i] \in HexGroups)
            /\ Cardinality({i \in 1..Len(s) : s[i] = ":"}) >= 2
    THEN "v6"
    ELSE "nil"

----------------------------------------------------------------------------
(* the peers *)

\* host of the client that owns the control connections
ClientHost == <<"10", ".", "0", ".", "0", ".", "5">>
\* host of another machine that can reach the server
OtherHost == <<"10", ".", "0", ".", "0", ".", "9">>
PeerHosts == {ClientHost, OtherHost}

\* conn.RemoteAddr().String() of the control connection of session s
RemoteAddr(s) == ClientHost \o <<":">> \o FormatInt(40000 + s)

----------------------------------------------------------------------------
(* users *)

\* the users map built by StartServer from the users file
users == (<<"alice">> :> <<"secret">>) @@ (<<"bob">> :> <<"hunter2">>)

----------------------------------------------------------------------------
(* replies *)

\* newReply
newReply(s, msg) == [StatusCode |-> s, Message |-> msg]

Reply220 == newReply("220", <<"Welcome to Erik's FTP Server">>)
Reply421Timeout == newReply("421", <<"Timeout.">>)
Reply500Read == newReply("500", <<"Unrecognized command.">>)
Reply500NotRecognized(code) ==
    newReply("500", code \o <<": command not recognized.">>)
Reply501 == newReply("501", <<"Error in arguments.">>)
Reply550FileAction == newReply("550", <<"File action failed.">>)
Reply530NotLoggedIn == newReply("530", <<"Log in with USER and PASS first.">>)
Reply421Server == newReply("421", <<"An internal error occurred.">>)
Reply230Already == newReply("230", <<"User already logged in.">>)
Reply331(username) ==
    newReply("331", <<"Username ">> \o username
                    \o <<" accepted, please provide the password.">>)
Reply503 == newReply("503", <<"Log in with USER first.">>)
Reply530Login == newReply("530", <<"Login incorrect.">>)
Reply230Login == newReply("230", <<"Login successful.">>)
Reply221 == newReply("221", <<"Goodbye.">>)

\* Reply.String; the test for newlines is made on the trimmed message, the
\* single-line form is built from r.Message
String(r) ==
    LET msg == Trim(r.Message, {"LF"})
    IN  IF Contains(msg, "LF")
        THEN LET a == Split(msg, "LF")
                 tabbed == [i \in 1..Len(a) |-> <<"TAB">> \o a[i]]
             IN  <<r.StatusCode, "-", "CR", "LF">>
                 \o JoinStr(tabbed, <<"CR", "LF">>) \o <<"CR", "LF">>
                 \o <<r.StatusCode, " ", "Erik's FTP Server">>
        ELSE <<r.StatusCode, " ">> \o r.Message

----------------------------------------------------------------------------
(* program constants *)

\* readCommand: time.After(2 * time.Minute), in seconds
IdleTimeout == 120
\* math.MaxUint16
MaxUint16 == 65535
\* granularity of the clock of the model, in seconds
TickSeconds == IdleTimeout

\* CommandCode enumeration
CommandUSER == <<"USER">>
CommandPASS == <<"PASS">>
CommandCWD  == <<"CWD">>
CommandCDUP == <<"CDUP">>
CommandQUIT == <<"QUIT">>
CommandPASV == <<"PASV">>
CommandEPSV == <<"EPSV">>
CommandPORT == <<"PORT">>
CommandEPRT == <<"EPRT">>
CommandRETR == <<"RETR">>
CommandPWD  == <<"PWD">>
CommandLIST == <<"LIST">>
CommandHELP == <<"HELP">>

\* the commands that initCommandTable maps to writeError530NotLoggedIn
Privileged == {CommandPWD, CommandCWD, CommandCDUP, CommandPORT, CommandEPRT,
               CommandPASV, CommandEPSV, CommandLIST, CommandRETR}

----------------------------------------------------------------------------
(* state *)

Sess == 1..MaxSessions
EphemeralPorts == 50001..(50000 + MaxListeners)

VARIABLES
    config,     \* the server configuration: [port, pasv]
    h,          \* h[s]: the handler struct of session s
    pc,         \* pc[s]: where the goroutine of session s is
    connOpen,   \* connOpen[s]: the control connection has not been closed
    connErr,    \* connErr[s]: reads of the control connection fail (not EOF)
    cmd,        \* cmd[s]: what the last readCommand returned
    sent,       \* sent[s]: the replies written since the last read began
    elapsed,    \* elapsed[s]: seconds the session has been blocked for
    xfer,       \* xfer[s]: what dataConn.write did for the current command
    listeners,  \* the ephemeral ports: listener state and accept count
    crashed,    \* the server process has died of a panic
    passEver,   \* history: a PASS has been answered 230 on session s
    authEvent,  \* history: the last of USER->331, PASS->530, PASS->230
    lastUser,   \* history: the argument of the last USER answered 331
    ipv6,       \* the host of the server has an IPv6 stack (dual stack)
    calc,       \* a call of one of the package's pure functions
    wire,       \* wire[s]: the lines the client wrote that no read has taken
    client      \* the client program of the package (Client)

vars == <<config, h, pc, connOpen, connErr, cmd, sent, elapsed, xfer,
          listeners, crashed, passEver, authEvent, lastUser, ipv6, calc,
          wire, client>>

\* the data connection variants (nil interface, serverActiveDataConn,
\* serverPassiveDataConn)
NilDataConn == [type |-> "nil", address |-> <<>>, ln |-> 0, localAddr |-> <<>>]
serverActiveDataConn(addr) ==
    [type |-> "active", address |-> addr, ln |-> 0, localAddr |-> <<>>]
serverPassiveDataConn(ln, addr) ==
    [type |-> "passive", address |-> <<>>, ln |-> ln, localAddr |-> addr]

NoCmd == [Code |-> <<>>, Arugment |-> <<>>, err |-> "none"]
\* xfer: the calls of dataConn.write (attempts), the variant called (mode),
\* the listener accepted on (ln), the host at the other end of the data
\* connection (peer), whether conn.Write was called on it (wrote) and
\* whether write returned nil (ok)
NoXfer == [attempts |-> 0, mode |-> "", ln |-> 0, peer |-> <<>>,
           wrote |-> FALSE, ok |-> FALSE]

\* the client program has not been started.  pc is the place the client is
\* at ("prompt": commandLoop reads a line; "setup", "reply1", "reply2": a
\* readReply of openDataConn, of the transfer command, of the end of the
\* transfer; "exited": os.Exit), kind the transfer command being executed,
\* listener whether newActiveDataConn opened a listener for it, answer the
\* status code read in reply to its PORT, EPRT, PASV or EPSV, dialed whether
\* newPassiveDataConn connected for it, written the codes of the commands
\* written on the control connection, n the transfer commands started,
\* rply the reply the last readReply returned (the code "" when it
\* returned an error), addr the address last handed to
\* newPassiveDataConn, inbox the bytes that have arrived on the control
\* connection and that no read has taken
NoClient == [pc |-> "off", dataConnType |-> "active", extended |-> FALSE,
             localAddr |-> <<>>, kind |-> "", listener |-> FALSE,
             answer |-> "", dialed |-> FALSE, written |-> <<>>, n |-> 0,
             rply |-> newReply("", <<>>), addr |-> <<>>, inbox |-> <<>>]

\* initCommandTable with PWD mapped to its handler instead of the 530 reply
initCommandTableOpenPWD ==
    [c \in Privileged \cup {CommandUSER, CommandPASS, CommandHELP, CommandQUIT}
       |-> CASE c = CommandUSER -> "HandleUSER"
             [] c = CommandPASS -> "HandlePASS"
             [] c = CommandHELP -> "HandleHELP"
             [] c = CommandQUIT -> "HandleQUIT"
             [] c = CommandPWD  -> "HandlePWD"
             [] OTHER -> "writeError530NotLoggedIn"]

\* initCommandTable: the table of the not-logged-in state
initCommandTable ==
    [c \in Privileged \cup {CommandUSER, CommandPASS, CommandHELP, CommandQUIT}
       |-> CASE c = CommandUSER -> "HandleUSER"
             [] c = CommandPASS -> "HandlePASS"
             [] c = CommandHELP -> "HandleHELP"
             [] c = CommandQUIT -> "HandleQUIT"
             [] OTHER -> "writeError530NotLoggedIn"]

\* initCommandTableLoggedIn: the table of the logged-in state
initCommandTableLoggedIn ==
    [c \in Privileged \cup {CommandUSER, CommandPASS, CommandHELP, CommandQUIT}
       |-> CASE c = CommandUSER -> "HandleUSER"
             [] c = CommandPASS -> "HandlePASS"
             [] c = CommandHELP -> "HandleHELP"
             [] c = CommandPWD  -> "HandlePWD"
             [] c = CommandCWD  -> "HandleCWD"
             [] c = CommandCDUP -> "HandleCDUP"
             [] c = CommandPORT -> "HandlePORT"
             [] c = CommandEPRT -> "HandleEPRT"
             [] c = CommandPASV -> "HandlePASV"
             [] c = CommandEPSV -> "HandleEPSV"
             [] c = CommandLIST -> "HandleLIST"
             [] c = CommandRETR -> "HandleRETR"
             [] OTHER -> "HandleQUIT"]

\* the handler struct before newHandler filled it in
NoHandler ==
    [username |-> <<>>, dir |-> <<>>, dataConn |-> NilDataConn,
     isLoggedIn |-> FALSE, commands |-> initCommandTable]

----------------------------------------------------------------------------
(* what a handler does: the handler struct it leaves, the replies it wrote
   (writeReply), the listeners, whether it panicked, and where the goroutine
   goes on: "read" (back in the loop of handle) or "xfer" (in dataConn.write) *)

Result(hs, replies) ==
    [h |-> hs, out |-> replies, listeners |-> listeners, panic |-> FALSE,
     next |-> "read"]

\* an index out of range or a nil dereference: the process dies
Panicked(s) ==
    [h |-> h[s], out |-> <<>>, listeners |-> listeners, panic |-> TRUE,
     next |-> "read"]

writeError501Args(s) == Result(h[s], <<Reply501>>)
writeError550FileAction(s) == Result(h[s], <<Reply550FileAction>>)
writeError421Server(s) == Result(h[s], <<Reply421Server>>)
writeError530NotLoggedIn(s, arg) == Result(h[s], <<Reply530NotLoggedIn>>)

\* initActiveDataConn
initActiveDataConn(hs, addr) ==
    [hs EXCEPT !.dataConn = serverActiveDataConn(addr)]

\* net.Listen("tcp", ":0"): the port bound, 0 on failure.  The kernel may
\* pick any free port; the lowest one stands for all of them.
Listen(ok) ==
    LET free == {p \in EphemeralPorts : listeners[p].state # "listening"}
    IN  IF ok /\ free # {}
        THEN CHOOSE p \in free : \A q \in free : p <= q
        ELSE 0

\* ln.Addr().String() of a listener opened with net.Listen("tcp", ":0"): the
\* wildcard address of the host's stack and the port bound
ListenerAddr(port) ==
    IF ipv6 THEN <<"[", ":", ":", "]", ":">> \o FormatInt(port)
    ELSE <<"0", ".", "0", ".", "0", ".", "0", ":">> \o FormatInt(port)

\* initPassiveDataConn
initPassiveDataConn(s, hs, ok) ==
    LET ln == Listen(ok)
    IN  IF ln = 0
        THEN [err |-> TRUE, addr |-> <<>>, h |-> hs, listeners |-> listeners]
        ELSE [err |-> FALSE, addr |-> ListenerAddr(ln),
              h |-> [hs EXCEPT !.dataConn =
                        serverPassiveDataConn(ln,
                            SplitHostPort(RemoteAddr(s)).host)],
              listeners |-> [listeners EXCEPT ![ln] =
                        [state |-> "listening", accepts |-> 0, owner |-> s]]]

----------------------------------------------------------------------------
(* address codec *)

\* fmt.Sscanf(s, "%d", &u) with u a uint16 that starts as 0
ScanUint16(s) ==
    LET n == ScanInt(s) IN IF n \in 0..MaxUint16 THEN n ELSE 0

\* getPORTString with the two port bytes in the other order
getPORTStringSwapped(host, port) ==
    LET hostBytes == Split(host, ".")
        intPort == ScanUint16(port)
        lo == intPort % 256
        hi == intPort \div 256
    IN  IF Len(hostBytes) # 4 THEN [err |-> TRUE, str |-> <<>>]
        ELSE IF intPort > MaxUint16 THEN [err |-> TRUE, str |-> <<>>]
        ELSE [err |-> FALSE,
              str |-> hostBytes[1] \o <<",">> \o hostBytes[2] \o <<",">>
                      \o hostBytes[3] \o <<",">> \o hostBytes[4] \o <<",">>
                      \o FormatInt(lo) \o <<",">> \o FormatInt(hi)]

\* getPORTString
getPORTString(host, port) ==
    LET hostBytes == Split(host, ".")
        intPort == ScanUint16(port)
        lo == intPort % 256
        hi == intPort \div 256
    IN  IF Len(hostBytes) # 4 THEN [err |-> TRUE, str |-> <<>>]
        ELSE IF intPort > MaxUint16 THEN [err |-> TRUE, str |-> <<>>]
        ELSE [err |-> FALSE,
              str |-> hostBytes[1] \o <<",">> \o hostBytes[2] \o <<",">>
                      \o hostBytes[3] \o <<",">> \o hostBytes[4] \o <<",">>
                      \o FormatInt(hi) \o <<",">> \o FormatInt(lo)]

\* hostPortToAddr; the port is computed in uint16 arithmetic
hostPortToAddr(hostPort) ==
    LET data == Split(hostPort, ",")
    IN  IF Len(data) # 6 THEN [err |-> "invalid argument", addr |-> <<>>]
        ELSE LET host == data[1] \o <<".">> \o data[2] \o <<".">>
                         \o data[3] \o <<".">> \o data[4]
                 port == (ScanUint16(data[5]) * 256 + ScanUint16(data[6]))
                         % (MaxUint16 + 1)
             IN  IF port > MaxUint16
                 THEN [err |-> "port out of range", addr |-> <<>>]
                 ELSE [err |-> "",
                       addr |-> JoinHostPort(host, FormatInt(port))]

\* the hosts of the model that are IPv6 loopback literals (ip.IsLoopback)
Loopback6 == {<<":", ":", "1">>}
Localhost4 == <<"127", ".", "0", ".", "0", ".", "1">>

\* getEPRTString without the rewrite of the IPv6 loopback address
getEPRTStringNoRewrite(host, port) ==
    LET ip == ParseIP(host)
        arg(proto, hst) ==
            <<"|", proto, "|">> \o hst \o <<"|">> \o port \o <<"|">>
    IN  IF ip = "nil" THEN [err |-> TRUE, str |-> <<>>]
        ELSE IF ip = "v4" THEN [err |-> FALSE, str |-> arg("1", host)]
        ELSE [err |-> FALSE, str |-> arg("2", host)]

\* getEPRTString
getEPRTString(host, port) ==
    LET ip == ParseIP(host)
        arg(proto, hst) ==
            <<"|", proto, "|">> \o hst \o <<"|">> \o port \o <<"|">>
    IN  IF ip = "nil" THEN [err |-> TRUE, str |-> <<>>]
        ELSE IF ip = "v4" THEN [err |-> FALSE, str |-> arg("1", host)]
        ELSE IF host \in Loopback6
        THEN [err |-> FALSE, str |-> arg("1", Localhost4)]
        ELSE [err |-> FALSE, str |-> arg("2", host)]

\* parseEPRTArg; arg[0] of the empty argument is an index out of range
parseEPRTArg(arg) ==
    IF arg = <<>> THEN [err |-> "panic", addr |-> <<>>]
    ELSE LET delim == arg[1]
             params == Split(Trim(arg, {delim}), "|")
         IN  IF Len(params) # 3
             THEN [err |-> "invalid EPRT string", addr |-> <<>>]
             ELSE IF params[1] # <<"1">> /\ params[1] # <<"2">>
             THEN [err |-> "errInvalidAddrFamily", addr |-> <<>>]
             ELSE [err |-> "", addr |-> JoinHostPort(params[2], params[3])]

----------------------------------------------------------------------------
(* the command handlers *)

\* HandleUSER with the username stored before the argument is checked
HandleUSERStoresFirst(s, username) ==
    IF username = <<>>
    THEN Result([h[s] EXCEPT !.username = username], <<Reply501>>)
    ELSE IF username = h[s].username /\ h[s].isLoggedIn
    THEN Result(h[s], <<Reply230Already>>)
    ELSE Result([h[s] EXCEPT !.username = username], <<Reply331(username)>>)

\* HandleUSER
HandleUSER(s, username) ==
    IF username = <<>> THEN writeError501Args(s)
    ELSE IF username = h[s].username /\ h[s].isLoggedIn
    THEN Result(h[s], <<Reply230Already>>)
    ELSE Result([h[s] EXCEPT !.username = username], <<Reply331(username)>>)

\* HandlePASS without the comparison of the password
HandlePASSAnyPassword(s, password) ==
    IF h[s].username = <<>> THEN Result(h[s], <<Reply503>>)
    ELSE IF h[s].username \notin DOMAIN users
    THEN Result([h[s] EXCEPT !.username = <<>>], <<Reply530Login>>)
    ELSE Result([h[s] EXCEPT !.commands = initCommandTableLoggedIn,
                             !.isLoggedIn = TRUE],
                <<Reply230Login>>)

\* HandlePASS
HandlePASS(s, password) ==
    IF h[s].username = <<>> THEN Result(h[s], <<Reply503>>)
    ELSE IF h[s].username \notin DOMAIN users
            \/ password # users[h[s].username]
    THEN Result([h[s] EXCEPT !.username = <<>>], <<Reply530Login>>)
    ELSE Result([h[s] EXCEPT !.commands = initCommandTableLoggedIn,
                             !.isLoggedIn = TRUE],
                <<Reply230Login>>)

\* HandlePWD
HandlePWD(s, arg) ==
    IF arg # <<>> THEN writeError501Args(s)
    ELSE Result(h[s], <<newReply("257", <<"\"">> \o h[s].dir
                            \o <<"\" is the current directory.">>)>>)

\* HandleCWD
HandleCWD(s, dir) ==
    LET p == IF IsAbs(dir) THEN dir ELSE Join(h[s].dir, dir)
        info == Lstat(p)
    IN  IF info \in {"ENOENT", "ENOTDIR"}
        THEN Result(h[s], <<newReply("550", <<"Directory change failed.">>)>>)
        ELSE IF info # "dir"
        THEN Result(h[s], <<newReply("550", dir \o <<": Not a directory.">>)>>)
        ELSE Result([h[s] EXCEPT !.dir = p],
                    <<newReply("250", <<"Directory change successful.">>)>>)

\* HandleCDUP without the return after the 501 reply
HandleCDUPNoReturn(s, arg) ==
    IF arg # <<>>
    THEN [HandleCWD(s, <<"..">>) EXCEPT !.out = <<Reply501>> \o @]
    ELSE HandleCWD(s, <<"..">>)

\* HandleCDUP
HandleCDUP(s, arg) ==
    IF arg # <<>> THEN writeError501Args(s) ELSE HandleCWD(s, <<"..">>)

\* HandlePORT
HandlePORT(s, args) ==
    IF ~config.port
    THEN Result(h[s], <<newReply("550", <<"PORT mode not available.">>)>>)
    ELSE LET a == hostPortToAddr(args)
         IN  IF a.err # "" THEN writeError501Args(s)
             ELSE Result(initActiveDataConn(h[s], a.addr),
                         <<newReply("200", <<"PORT command accepted.">>)>>)

\* HandleEPRT with the argument parsed before the mode is looked at
HandleEPRTParseFirst(s, args) ==
    LET a == parseEPRTArg(args)
    IN  IF a.err = "panic" THEN Panicked(s)
        ELSE IF ~config.port
        THEN Result(h[s], <<newReply("550", <<"EPRT mode not available">>)>>)
        ELSE IF a.err = "errInvalidAddrFamily"
        THEN Result(h[s], <<newReply("522",
                     <<"Unrecognized address family identifier.">>)>>)
        ELSE IF a.err # "" THEN writeError501Args(s)
        ELSE Result(initActiveDataConn(h[s], a.addr),
                    <<newReply("200", <<"EPRT command accepted.">>)>>)

\* HandleEPRT
HandleEPRT(s, args) ==
    IF ~config.port
    THEN Result(h[s], <<newReply("550", <<"EPRT mode not available">>)>>)
    ELSE LET a == parseEPRTArg(args)
         IN  IF a.err = "panic" THEN Panicked(s)
             ELSE IF a.err = "errInvalidAddrFamily"
             THEN Result(h[s], <<newReply("522",
                          <<"Unrecognized address family identifier.">>)>>)
             ELSE IF a.err # "" THEN writeError501Args(s)
             ELSE Result(initActiveDataConn(h[s], a.addr),
                         <<newReply("200", <<"EPRT command accepted.">>)>>)

\* HandlePASV; net.ParseIP is applied to the listener's host:port text
HandlePASV(s, arg, listenOk) ==
    IF ~config.pasv
    THEN Result(h[s], <<newReply("550", <<"PASV mode not available">>)>>)
    ELSE IF arg # <<>> THEN writeError501Args(s)
    ELSE LET r == initPassiveDataConn(s, h[s], listenOk)
             hp == SplitHostPort(r.addr)
             msg == getPORTString(hp.host, hp.port)
             reply ==
                 IF hp.err THEN Reply421Server
                 ELSE IF ParseIP(r.addr) # "v4"
                 THEN newReply("421", <<"PASV failed, use EPSV.">>)
                 ELSE IF msg.err THEN Reply421Server
                 ELSE newReply("227", <<"Entering Passive Mode (">>
                                      \o msg.str \o <<").">>)
         IN  IF r.err THEN writeError421Server(s)
             ELSE [Result(r.h, <<reply>>) EXCEPT !.listeners = r.listeners]

\* HandleEPSV with a listener that is opened and announced but not made the
\* data channel of the session
HandleEPSVKeepsChannel(s, arg, listenOk) ==
    IF ~config.pasv
    THEN Result(h[s], <<newReply("550", <<"PASV mode not available">>)>>)
    ELSE IF arg # <<>> THEN writeError501Args(s)
    ELSE LET r == initPassiveDataConn(s, h[s], listenOk)
             hp == SplitHostPort(r.addr)
         IN  IF r.err \/ hp.err
             THEN Result(h[s], <<newReply("421", <<"EPSV command failed.">>)>>)
             ELSE [Result(h[s],
                     <<newReply("229", <<"Entering Extended Passive Mode (|||">>
                                       \o hp.port \o <<"|).">>)>>)
                   EXCEPT !.listeners = r.listeners]

\* HandleEPSV
HandleEPSV(s, arg, listenOk) ==
    IF ~config.pasv
    THEN Result(h[s], <<newReply("550", <<"PASV mode not available">>)>>)
    ELSE IF arg # <<>> THEN writeError501Args(s)
    ELSE LET r == initPassiveDataConn(s, h[s], listenOk)
             hp == SplitHostPort(r.addr)
             reply ==
                 IF hp.err THEN newReply("421", <<"EPSV command failed.">>)
                 ELSE newReply("229", <<"Entering Extended Passive Mode (|||">>
                                      \o hp.port \o <<"|).">>)
         IN  IF r.err
             THEN Result(h[s], <<newReply("421", <<"EPSV command failed.">>)>>)
             ELSE [Result(r.h, <<reply>>) EXCEPT !.listeners = r.listeners]

Reply150List == newReply("150", <<"Here comes the directory listing.">>)
Reply150File == newReply("150", <<"Here comes the file.">>)
Reply451List == newReply("451", <<"Failed to open data connection.">>)
Reply451File == newReply("451", <<"Error occurred in transfer.">>)
Reply226List == newReply("226", <<"Listing successfully transfered.">>)
Reply226File == newReply("226", <<"File transfered successfully.">>)

\* HandleLIST up to the call of h.dataConn.write; lsOk: "ls -l" exits with 0
HandleLIST(s, dir, lsOk) ==
    LET p == IF dir = <<>> THEN h[s].dir
             ELSE IF IsAbs(dir) THEN dir ELSE Join(h[s].dir, dir)
        f == Lstat(p)
    IN  IF f \in {"ENOENT", "ENOTDIR"}
        THEN Result(h[s], <<newReply("550", <<"Directory listing failed.">>)>>)
        ELSE IF f # "dir"
        THEN Result(h[s], <<newReply("550", dir \o <<": not a directory">>)>>)
        ELSE IF ~lsOk
        THEN Result(h[s], <<newReply("550", <<"Directory listing failed.">>)>>)
        ELSE [Result(h[s], <<Reply150List>>) EXCEPT !.next = "xfer"]

\* HandleLIST from the return of h.dataConn.write, with the test of the
\* error inverted
HandleLISTWrittenInverted(s, err) ==
    IF ~err THEN Result(h[s], <<Reply451List>>)
    ELSE Result(h[s], <<Reply226List>>)

\* HandleLIST from the return of h.dataConn.write
HandleLISTWritten(s, err) ==
    IF err THEN Result(h[s], <<Reply451List>>)
    ELSE Result(h[s], <<Reply226List>>)

\* HandleRETR up to the call of h.dataConn.write; readOk: ioutil.ReadFile
\* returns the contents
HandleRETR(s, file, readOk) ==
    LET p == IF IsAbs(file) THEN file ELSE Join(h[s].dir, file)
        f == Lstat(p)
    IN  IF f \in {"ENOENT", "ENOTDIR"} THEN writeError550FileAction(s)
        ELSE IF f # "file" THEN writeError550FileAction(s)
        ELSE IF ~readOk THEN writeError550FileAction(s)
        ELSE [Result(h[s], <<Reply150File>>) EXCEPT !.next = "xfer"]

\* HandleRETR from the return of h.dataConn.write
HandleRETRWritten(s, err) ==
    IF err THEN Result(h[s], <<Reply451File>>)
    ELSE Result(h[s], <<Reply226File>>)

\* HandleHELP
Reply214Help ==
    newReply("214", <<"The following commands are recogized:", "LF",
                      "USER   PASS   CWD    CDUP   PWD", "LF",
                      "PASV   EPSV   PORT   EPRT   RETR", "LF",
                      "LIST   HELP   QUIT">>)

HandleHELP(s, arg) ==
    IF arg # <<>> THEN writeError501Args(s)
    ELSE Result(h[s], <<Reply214Help>>)

\* HandleQUIT
HandleQUIT(s, arg) == Result(h[s], <<Reply221>>)

\* command(cmd.Arugment): the call through the command table; ok: the
\* operating system call the handler makes (listen, ls, read) succeeds
Call(name, s, arg, ok) ==
    CASE name = "HandleUSER" -> HandleUSER(s, arg)
      [] name = "HandlePASS" -> HandlePASS(s, arg)
      [] name = "HandleHELP" -> HandleHELP(s, arg)
      [] name = "HandlePWD"  -> HandlePWD(s, arg)
      [] name = "HandleCWD"  -> HandleCWD(s, arg)
      [] name = "HandleCDUP" -> HandleCDUP(s, arg)
      [] name = "HandlePORT" -> HandlePORT(s, arg)
      [] name = "HandleEPRT" -> HandleEPRT(s, arg)
      [] name = "HandlePASV" -> HandlePASV(s, arg, ok)
      [] name = "HandleEPSV" -> HandleEPSV(s, arg, ok)
      [] name = "HandleLIST" -> HandleLIST(s, arg, ok)
      [] name = "HandleRETR" -> HandleRETR(s, arg, ok)
      [] name = "HandleQUIT" -> HandleQUIT(s, arg)
      [] name = "writeError530NotLoggedIn" -> writeError530NotLoggedIn(s, arg)

----------------------------------------------------------------------------
(* the server side of the data channel *)

\* what the network does to one dataConn.write: whether Dial / Accept
\* returns a connection, the host that connected to the listener, whether
\* conn.Write and conn.Close succeed
WriteEnv == [conn : BOOLEAN, peer : PeerHosts, writeOk : BOOLEAN,
             closeOk : BOOLEAN]

WriteResult(err, log, lns) ==
    [panic |-> FALSE, err |-> err, log |-> log, listeners |-> lns]

\* serverActiveDataConn.write
activeWrite(s, env) ==
    LET dc == h[s].dataConn
        target == SplitHostPort(dc.address)
        log == [NoXfer EXCEPT !.attempts = 1, !.mode = "active"]
    IN  IF target.err \/ ~env.conn THEN WriteResult(TRUE, log, listeners)
        ELSE LET wlog == [log EXCEPT !.peer = target.host, !.wrote = TRUE]
             IN  IF ~env.writeOk THEN WriteResult(TRUE, wlog, listeners)
                 ELSE WriteResult(~env.closeOk,
                                  [wlog EXCEPT !.ok = env.closeOk], listeners)

\* serverPassiveDataConn.write without the comparison of the peer's host
passiveWriteNoCheck(s, env) ==
    LET dc == h[s].dataConn
        log == [NoXfer EXCEPT !.attempts = 1, !.mode = "passive",
                              !.ln = dc.ln]
    IN  IF listeners[dc.ln].state # "listening" \/ ~env.conn
        THEN WriteResult(TRUE, log, listeners)
        ELSE LET lns == [listeners EXCEPT ![dc.ln].accepts =
                            IF @ < MaxAccepts THEN @ + 1 ELSE @]
                 wlog == [log EXCEPT !.peer = env.peer, !.wrote = TRUE]
             IN  IF ~env.writeOk THEN WriteResult(TRUE, wlog, lns)
                 ELSE WriteResult(~env.closeOk,
                                  [wlog EXCEPT !.ok = env.closeOk], lns)

\* serverPassiveDataConn.write
passiveWrite(s, env) ==
    LET dc == h[s].dataConn
        log == [NoXfer EXCEPT !.attempts = 1, !.mode = "passive",
                              !.ln = dc.ln]
    IN  IF listeners[dc.ln].state # "listening" \/ ~env.conn
        THEN WriteResult(TRUE, log, listeners)
        ELSE LET lns == [listeners EXCEPT ![dc.ln].accepts =
                            IF @ < MaxAccepts THEN @ + 1 ELSE @]
                 dip == env.peer
                 alog == [log EXCEPT !.peer = dip]
                 wlog == [alog EXCEPT !.wrote = TRUE]
             IN  IF dip # dc.localAddr THEN WriteResult(TRUE, alog, lns)
                 ELSE IF ~env.writeOk THEN WriteResult(TRUE, wlog, lns)
                 ELSE WriteResult(~env.closeOk,
                                  [wlog EXCEPT !.ok = env.closeOk], lns)

\* h.dataConn.write(data): the call through the serverDataConn interface;
\* calling a method of the nil interface value panics
write(s, env) ==
    IF h[s].dataConn.type = "nil"
    THEN [panic |-> TRUE, err |-> TRUE, log |-> NoXfer,
          listeners |-> listeners]
    ELSE IF h[s].dataConn.type = "active" THEN activeWrite(s, env)
    ELSE passiveWrite(s, env)

----------------------------------------------------------------------------
(* what the client can send: the lines that ReadString('\n') returns *)

CRLF == <<"CR", "LF">>

\* Command.String() followed by the CRLF that writeCommand appends
Line(code, arg) ==
    code \o (IF arg = <<>> THEN <<>> ELSE <<" ">> \o arg) \o CRLF

PortArg(host, port) == getPORTString(host, FormatInt(port)).str
EprtArg(proto, host, port) ==
    <<"|", proto, "|">> \o host \o <<"|">> \o FormatInt(port) \o <<"|">>

Lines ==
    {Line(CommandUSER, a) : a \in {<<>>, <<"alice">>, <<"bob">>, <<"eve">>}}
    \cup {Line(CommandPASS, a) : a \in {<<"secret">>, <<"hunter2">>}}
    \cup {Line(CommandPWD, a) : a \in {<<>>, <<"x">>}}
    \cup {Line(CommandCWD, a) : a \in {<<"pub">>, <<"/", "srv", "/">>,
                                       <<"nope">>, <<"readme.txt">>}}
    \cup {Line(CommandCDUP, a) : a \in {<<>>, <<"x">>}}
    \cup {Line(CommandPORT, a) : a \in {PortArg(ClientHost, 50000),
                                        <<"10", ",", "0", ",", "0", ",", "5">>}}
    \cup {Line(CommandEPRT, a) : a \in {EprtArg("1", ClientHost, 50000),
                                        EprtArg("3", ClientHost, 50000),
                                        <<>>}}
    \cup {Line(CommandPASV, a) : a \in {<<>>, <<"x">>}}
    \cup {Line(CommandEPSV, a) : a \in {<<>>, <<"x">>}}
    \cup {Line(CommandLIST, a) : a \in {<<>>, <<"pub">>, <<"nope">>}}
    \cup {Line(CommandRETR, a) : a \in {<<"readme.txt">>, <<"pub">>}}
    \cup {Line(CommandHELP, a) : a \in {<<>>, <<"x">>}}
    \cup {Line(CommandQUIT, <<>>), Line(<<"quit">>, <<"now">>),
          Line(<<"Quit">>, <<>>), Line(<<"pwd">>, <<>>),
          Line(<<"NOOP">>, <<>>), Line(<<"ls">>, <<>>),
          <<"PWD", "LF">>, CRLF, <<"LF">>}

----------------------------------------------------------------------------
(* the goroutine of a session: newHandler, handle, readCommand *)

\* readCommand from the line read to the Command returned
readCommand(msg) ==
    IF ~commandRegex(msg)
    THEN [Code |-> <<>>, Arugment |-> <<>>, err |-> "unparseable"]
    ELSE LET ind == IndexByte(msg, " ")
         IN  IF ind <= 1
             THEN [Code |-> Trim(msg, {"CR", "LF"}), Arugment |-> <<>>,
                   err |-> ""]
             ELSE [Code |-> SubSeq(msg, 1, ind - 1),
                   Arugment |-> Trim(SubSeq(msg, ind + 1, Len(msg)),
                                     {"CR", "LF"}),
                   err |-> ""]

HasReply(out, r) == \E i \in 1..Len(out) : out[i] = r
HasCode(out, c) == \E i \in 1..Len(out) : out[i].StatusCode = c

\* the history variables follow the replies written for command c
Observe(s, c, out) ==
    /\ passEver' = [passEver EXCEPT ![s] = @ \/ HasReply(out, Reply230Login)]
    /\ authEvent' = [authEvent EXCEPT ![s] =
                        IF HasReply(out, Reply230Login) THEN "passOk"
                        ELSE IF HasReply(out, Reply530Login) THEN "passFail"
                        ELSE IF HasCode(out, "331") THEN "user"
                        ELSE @]
    /\ lastUser' = [lastUser EXCEPT ![s] =
                        IF HasCode(out, "331") THEN c.Arugment ELSE @]

\* a panic in any goroutine ends the server process
Panic ==
    /\ crashed' = TRUE
    /\ UNCHANGED <<ipv6, calc, wire, client, config, h, pc, connOpen, connErr, cmd, sent, elapsed, xfer,
                   listeners, passEver, authEvent, lastUser>>

\* Apply with the handler struct kept in one place for all sessions
ApplyShared(s, res) ==
    IF res.panic THEN Panic
    ELSE /\ h' = [t \in Sess |-> IF pc[t] \in {"read", "handle", "xfer"}
                                 THEN res.h ELSE h[t]]
         /\ sent' = [sent EXCEPT ![s] = @ \o res.out]
         /\ listeners' = res.listeners
         /\ pc' = [pc EXCEPT ![s] = res.next]
         /\ elapsed' = [elapsed EXCEPT ![s] = 0]
         /\ Observe(s, cmd[s], res.out)
         /\ UNCHANGED <<ipv6, calc, wire, client, config, connOpen, connErr, cmd, xfer, crashed>>

\* the handler called for the current command returned res
Apply(s, res) ==
    IF res.panic THEN Panic
    ELSE /\ h' = [h EXCEPT ![s] = res.h]
         /\ sent' = [sent EXCEPT ![s] = @ \o res.out]
         /\ listeners' = res.listeners
         /\ pc' = [pc EXCEPT ![s] = res.next]
         /\ elapsed' = [elapsed EXCEPT ![s] = 0]
         /\ Observe(s, cmd[s], res.out)
         /\ UNCHANGED <<ipv6, calc, wire, client, config, connOpen, connErr, cmd, xfer, crashed>>

\* newHandler
newHandler(s, listenOk) ==
    LET h0 == [username |-> <<>>, dir |-> Getwd, dataConn |-> NilDataConn,
               isLoggedIn |-> FALSE, commands |-> initCommandTable]
        peer == SplitHostPort(RemoteAddr(s))
        portNum == ScanInt(peer.port)
    IN  IF config.pasv
        THEN LET r == initPassiveDataConn(s, h0, listenOk)
             IN  [err |-> FALSE, h |-> r.h, listeners |-> r.listeners]
        ELSE IF peer.err \/ portNum < 0
        THEN [err |-> TRUE, h |-> h0, listeners |-> listeners]
        ELSE [err |-> FALSE,
              h |-> initActiveDataConn(h0,
                        JoinHostPort(peer.host, FormatInt(portNum + 1))),
              listeners |-> listeners]

\* StartServer's listen loop for one accepted connection: newHandler, then
\* either conn.Close() or go handler.handle(), which writes the welcome
Accept(s) ==
    /\ ~crashed
    /\ pc[s] = "pending"
    /\ \E getwdOk \in BOOLEAN, listenOk \in BOOLEAN :
         LET r == newHandler(s, listenOk)
         IN  IF ~getwdOk \/ r.err
             THEN /\ pc' = [pc EXCEPT ![s] = "closed"]
                  /\ connOpen' = [connOpen EXCEPT ![s] = FALSE]
                  /\ UNCHANGED <<h, sent, listeners>>
             ELSE /\ h' = [h EXCEPT ![s] = r.h]
                  /\ listeners' = r.listeners
                  /\ sent' = [sent EXCEPT ![s] = <<Reply220>>]
                  /\ pc' = [pc EXCEPT ![s] = "read"]
                  /\ UNCHANGED connOpen
    /\ UNCHANGED <<ipv6, calc, wire, client, config, connErr, cmd, elapsed, xfer, crashed,
                   passEver, authEvent, lastUser>>

Reading(s) == ~crashed /\ pc[s] = "read" /\ ~connErr[s]

\* time passes while the goroutine is blocked in the select of readCommand
\* or in dataConn.write
Tick(s) ==
    /\ ~crashed
    /\ \/ Reading(s) /\ elapsed[s] < IdleTimeout
       \/ pc[s] = "xfer" /\ elapsed[s] < MaxBusy
    /\ elapsed' = [elapsed EXCEPT ![s] = @ + TickSeconds]
    /\ UNCHANGED <<ipv6, calc, wire, client, config, h, pc, connOpen, connErr, cmd, sent, xfer,
                   listeners, crashed, passEver, authEvent,
                   lastUser>>

\* handler.Close, deferred by handle
Close(s) ==
    /\ pc' = [pc EXCEPT ![s] = "closed"]
    /\ connOpen' = [connOpen EXCEPT ![s] = FALSE]

\* readCommand: case msg = <-msgChan, then logReceive and the parse;
\* logReceive slices msg[:len(msg)-2], out of range for a line of one byte
ReadFrom(s, lines) ==
    /\ Reading(s)
    /\ \E msg \in lines :
         IF Len(msg) < 2 THEN Panic
         ELSE /\ cmd' = [cmd EXCEPT ![s] = readCommand(msg)]
              /\ sent' = [sent EXCEPT ![s] = <<>>]
              /\ xfer' = [xfer EXCEPT ![s] = NoXfer]
              /\ pc' = [pc EXCEPT ![s] = "handle"]
              /\ elapsed' = [elapsed EXCEPT ![s] = 0]
              /\ UNCHANGED <<ipv6, calc, wire, client, config, h, connOpen, connErr, listeners, crashed, passEver, authEvent, lastUser>>

\* the client sends any of the lines of Lines
ReadLine(s) == ReadFrom(s, Lines)

\* readCommand returns io.EOF: handle logs and returns
ReadEOF(s) ==
    /\ Reading(s)
    /\ cmd' = [cmd EXCEPT ![s] = NoCmd]
    /\ sent' = [sent EXCEPT ![s] = <<>>]
    /\ xfer' = [xfer EXCEPT ![s] = NoXfer]
    /\ Close(s)
    /\ UNCHANGED <<ipv6, calc, wire, client, config, h, connErr, elapsed, listeners, crashed,
                   passEver, authEvent, lastUser>>

\* the timeout branch taken without the timer having run for IdleTimeout
ReadTimeoutNoWait(s) ==
    /\ Reading(s)
    /\ cmd' = [cmd EXCEPT ![s] = NoCmd]
    /\ sent' = [sent EXCEPT ![s] = <<Reply421Timeout>>]
    /\ xfer' = [xfer EXCEPT ![s] = NoXfer]
    /\ Close(s)
    /\ UNCHANGED <<ipv6, calc, wire, client, config, h, connErr, elapsed, listeners, crashed,
                   passEver, authEvent, lastUser>>

\* readCommand: case <-timer; handle writes 421 and returns
ReadTimeout(s) ==
    /\ Reading(s)
    /\ elapsed[s] >= IdleTimeout
    /\ cmd' = [cmd EXCEPT ![s] = NoCmd]
    /\ sent' = [sent EXCEPT ![s] = <<Reply421Timeout>>]
    /\ xfer' = [xfer EXCEPT ![s] = NoXfer]
    /\ Close(s)
    /\ UNCHANGED <<ipv6, calc, wire, client, config, h, connErr, elapsed, listeners, crashed,
                   passEver, authEvent, lastUser>>

\* readCommand returns another error of the connection: handle logs it,
\* writes 500 and continues with the next readCommand
ReadError(s) ==
    /\ ~crashed
    /\ pc[s] = "read"
    /\ connErr' = [connErr EXCEPT ![s] = TRUE]
    /\ cmd' = [cmd EXCEPT ![s] = NoCmd]
    /\ sent' = [sent EXCEPT ![s] = <<Reply500Read>>]
    /\ xfer' = [xfer EXCEPT ![s] = NoXfer]
    /\ elapsed' = [elapsed EXCEPT ![s] = 0]
    /\ UNCHANGED <<ipv6, calc, wire, client, config, h, pc, connOpen, listeners, crashed,
                   passEver, authEvent, lastUser>>

Handling(s) == ~crashed /\ pc[s] = "handle"

\* handle: readCommand returned the error of a line that is no command
Unparseable(s) ==
    /\ Handling(s)
    /\ cmd[s].err = "unparseable"
    /\ Apply(s, Result(h[s], <<Reply500Read>>))

\* the quit branch of handle without its return: the loop goes on
QuitNoReturn(s) ==
    /\ Handling(s)
    /\ cmd[s].err = ""
    /\ ToUpper(cmd[s].Code) = CommandQUIT
    /\ Apply(s, HandleQUIT(s, cmd[s].Arugment))

\* handle: the check for the quit command, then the deferred Close
Quit(s) ==
    /\ Handling(s)
    /\ cmd[s].err = ""
    /\ ToUpper(cmd[s].Code) = CommandQUIT
    /\ LET res == HandleQUIT(s, cmd[s].Arugment)
       IN  /\ h' = [h EXCEPT ![s] = res.h]
           /\ sent' = [sent EXCEPT ![s] = @ \o res.out]
           /\ Observe(s, cmd[s], res.out)
    /\ Close(s)
    /\ UNCHANGED <<ipv6, calc, wire, client, config, connErr, cmd, elapsed, xfer, listeners, crashed>>

\* handle: the command is not in the command table
NotRecognized(s) ==
    /\ Handling(s)
    /\ cmd[s].err = ""
    /\ ToUpper(cmd[s].Code) # CommandQUIT
    /\ ToUpper(cmd[s].Code) \notin DOMAIN h[s].commands
    /\ Apply(s, Result(h[s], <<Reply500NotRecognized(ToUpper(cmd[s].Code))>>))

\* handle: the command with code c is in the command table and is executed
Dispatch(s, c) ==
    /\ Handling(s)
    /\ cmd[s].err = ""
    /\ ToUpper(cmd[s].Code) = c
    /\ c # CommandQUIT
    /\ c \in DOMAIN h[s].commands
    /\ \E ok \in BOOLEAN :
         Apply(s, Call(h[s].commands[c], s, cmd[s].Arugment, ok))

\* HandleLIST / HandleRETR: h.dataConn.write returns, the terminal reply is
\* written and the handler returns
DataWrite(s) ==
    /\ ~crashed
    /\ pc[s] = "xfer"
    /\ \E env \in WriteEnv :
         LET w == write(s, env)
             res == IF ToUpper(cmd[s].Code) = CommandLIST
                    THEN HandleLISTWritten(s, w.err)
                    ELSE HandleRETRWritten(s, w.err)
         IN  IF w.panic THEN Panic
             ELSE /\ h' = [h EXCEPT ![s] = res.h]
                  /\ sent' = [sent EXCEPT ![s] = @ \o res.out]
                  /\ listeners' = w.listeners
                  /\ xfer' = [xfer EXCEPT ![s] = w.log]
                  /\ pc' = [pc EXCEPT ![s] = "read"]
                  /\ elapsed' = [elapsed EXCEPT ![s] = 0]
                  /\ Observe(s, cmd[s], res.out)
                  /\ UNCHANGED <<ipv6, calc, wire, client, config, connOpen, connErr, cmd, crashed>>

----------------------------------------------------------------------------
(* specification *)

\* StartServer refuses a configuration with both modes off
Configs == {c \in [port : BOOLEAN, pasv : BOOLEAN] : c.port \/ c.pasv}

\* no call of a pure function is being followed
NoCalc == [fn |-> "none", host |-> <<>>, port |-> <<>>,
           reply |-> newReply("", <<>>), stage |-> 0,
           arg |-> [err |-> FALSE, str |-> <<>>],
           out |-> [err |-> "", addr |-> <<>>], text |-> <<>>,
           delim |-> "", proto |-> "", chan |-> <<>>,
           next |-> <<>>, rply |-> newReply("", <<>>), parsed |-> <<>>,
           rest |-> <<>>, command |-> [Code |-> <<>>, Arugment |-> <<>>]]

\* the server has started on a dual-stack host
Init ==
    /\ ipv6 = TRUE
    /\ calc = NoCalc
    /\ config \in Configs
    /\ h = [s \in Sess |-> NoHandler]
    /\ pc = [s \in Sess |-> IF s = 1 THEN "pending" ELSE "unused"]
    /\ connOpen = [s \in Sess |-> s = 1]
    /\ connErr = [s \in Sess |-> FALSE]
    /\ cmd = [s \in Sess |-> NoCmd]
    /\ sent = [s \in Sess |-> <<>>]
    /\ elapsed = [s \in Sess |-> 0]
    /\ xfer = [s \in Sess |-> NoXfer]
    /\ listeners = [p \in EphemeralPorts |->
                      [state |-> "free", accepts |-> 0, owner |-> 0]]
    /\ crashed = FALSE
    /\ passEver = [s \in Sess |-> FALSE]
    /\ authEvent = [s \in Sess |-> "start"]
    /\ lastUser = [s \in Sess |-> <<>>]
    /\ wire = [s \in Sess |-> <<>>]
    /\ client = NoClient

Next ==
    \E s \in Sess :
        \/ Accept(s)
        \/ Tick(s)
        \/ ReadLine(s)
        \/ ReadEOF(s)
        \/ ReadTimeout(s)
        \/ ReadError(s)
        \/ Unparseable(s)
        \/ Quit(s)
        \/ NotRecognized(s)
        \/ Dispatch(s, CommandUSER)
        \/ Dispatch(s, CommandPASS)
        \/ Dispatch(s, CommandHELP)
        \/ Dispatch(s, CommandPWD)
        \/ Dispatch(s, CommandCWD)
        \/ Dispatch(s, CommandCDUP)
        \/ Dispatch(s, CommandPORT)
        \/ Dispatch(s, CommandEPRT)
        \/ Dispatch(s, CommandPASV)
        \/ Dispatch(s, CommandEPSV)
        \/ Dispatch(s, CommandLIST)
        \/ Dispatch(s, CommandRETR)
        \/ DataWrite(s)

Spec == Init /\ [][Next]_vars

\* the server has started on a host with or without an IPv6 stack
InitAnyStack ==
    /\ ipv6 \in BOOLEAN
    /\ calc = NoCalc
    /\ config \in {c \in Configs : c.pasv}
    /\ h = [s \in Sess |-> NoHandler]
    /\ pc = [s \in Sess |-> IF s = 1 THEN "pending" ELSE "unused"]
    /\ connOpen = [s \in Sess |-> s = 1]
    /\ connErr = [s \in Sess |-> FALSE]
    /\ cmd = [s \in Sess |-> NoCmd]
    /\ sent = [s \in Sess |-> <<>>]
    /\ elapsed = [s \in Sess |-> 0]
    /\ xfer = [s \in Sess |-> NoXfer]
    /\ listeners = [p \in EphemeralPorts |->
                      [state |-> "free", accepts |-> 0, owner |-> 0]]
    /\ crashed = FALSE
    /\ passEver = [s \in Sess |-> FALSE]
    /\ authEvent = [s \in Sess |-> "start"]
    /\ lastUser = [s \in Sess |-> <<>>]
    /\ wire = [s \in Sess |-> <<>>]
    /\ client = NoClient

SpecAnyStack == InitAnyStack /\ [][Next]_vars

----------------------------------------------------------------------------
(* the pure functions of the package, applied to inputs drawn from bounded
   sets: the address codec of PORT and EPRT, and Reply.String *)

serverVars == <<config, h, pc, connOpen, connErr, cmd, sent, elapsed, xfer,
                listeners, crashed, passEver, authEvent, lastUser, ipv6,
                wire, client>>

\* IPv4 dotted quads and IPv6 literals
Hosts4 == {ClientHost, Localhost4, <<"0", ".", "0", ".", "0", ".", "0">>,
           <<"255", ".", "255", ".", "255", ".", "255">>}
Hosts6 == Loopback6 \cup {<<":", ":">>, <<"fe80", ":", ":", "1">>}

\* the reply messages of at most MaxMsgLen lexemes
MsgAlphabet == {"ok", "CR", "LF"}
Messages == UNION {[1..n -> MsgAlphabet] : n \in 0..MaxMsgLen}

\* the lexemes that are three digits
ThreeDigits == {ToString(n) : n \in 100..999}

\* reader.ReadString('\n') on what the reader holds: the line with its LF,
\* and what follows it
ReadString(buf) ==
    LET i == IndexByte(buf, "LF")
    IN  IF i = 0 THEN [err |-> TRUE, line |-> <<>>, rest |-> buf]
        ELSE [err |-> FALSE, line |-> SubSeq(buf, 1, i),
              rest |-> SubSeq(buf, i + 1, Len(buf))]

\* the regular expressions of readReply: ^\d{3} .* and ^\d{3}-.*
singleLineRegex(line) ==
    Len(line) >= 2 /\ line[1] \in ThreeDigits /\ line[2] = " "
multiLineRegex(line) ==
    Len(line) >= 2 /\ line[1] \in ThreeDigits /\ line[2] = "-"

RECURSIVE readMore(_, _, _)
\* the loop of readReply for a multi-line reply: status is the code of the
\* first line, line what has been read so far, buf what the reader holds
readMore(status, line, buf) ==
    LET n == ReadString(buf)
    IN  IF n.err
        THEN [err |-> "EOF", rply |-> newReply("", <<>>), parsed |-> line]
        ELSE IF singleLineRegex(n.line) /\ n.line[1] = status
        THEN [err |-> "",
              rply |-> newReply(status,
                           SubSeq(line \o n.line, 2,
                                  Len(line) + Len(n.line) - 1)),
              parsed |-> line \o n.line]
        ELSE readMore(status, line \o n.line, n.rest)

\* controlConn.readReply on a connection on which stream has arrived.  The
\* call makes a new bufio.Reader, whose first conn.Read takes every byte
\* that has arrived; what readReply does not parse stays in the reader's
\* buffer and goes with the reader, so nothing is left on the connection.
\* parsed is what the calls of ReadString returned.
readReply(stream) ==
    LET first == ReadString(stream)
        r == IF first.err
             THEN [err |-> "EOF", rply |-> newReply("", <<>>),
                   parsed |-> <<>>]
             ELSE IF singleLineRegex(first.line)
             THEN [err |-> "",
                   rply |-> newReply(first.line[1],
                                SubSeq(first.line, 3, Len(first.line) - 1)),
                   parsed |-> first.line]
             ELSE IF multiLineRegex(first.line)
             THEN readMore(first.line[1], first.line, first.rest)
             ELSE [err |-> "malformed", rply |-> newReply("", <<>>),
                   parsed |-> first.line]
    IN  [err |-> r.err, rply |-> r.rply, parsed |-> r.parsed, rest |-> <<>>]

\* replies the server writes, and one whose message lines begin with three
\* digits and a space
ReplySamples ==
    {Reply220, Reply501, Reply150List, Reply226List, Reply214Help,
     newReply("200", <<>>),
     newReply("214", <<"226", " ", "ok", "LF", "214", " ", "done">>)}

\* first lines that are no reply
RawStreams == {<<"ok", "CR", "LF">>, <<"TAB", "226", " ", "ok", "CR", "LF">>,
               <<"226", "ok", "CR", "LF">>}

\* the arguments of PORT commands: four address fields and the port fields,
\* each a decimal numeral inside or outside the range of a byte, six fields
\* or fewer or more
AddrFields == {<<<<"10">>, <<"0">>, <<"0">>, <<"5">>>>,
               <<<<"256">>, <<"0">>, <<"0">>, <<"5">>>>,
               <<<<"10">>, <<"0">>, <<"0">>, <<"65535">>>>}
ByteSamples == {0, 1, 195, 255, 256, 65535}
PortFields ==
    {<<FormatInt(a), FormatInt(b)>> : a \in ByteSamples, b \in ByteSamples}
    \cup {<<>>, <<FormatInt(195)>>,
          <<FormatInt(195), FormatInt(80), FormatInt(1)>>}

\* the delimiters of EPRT arguments
Delims == {"|", "!", "+"}

\* newCommand
newCommand(code, arg) == [Code |-> code, Arugment |-> arg]

\* Client.executeCommand on the line typed at the prompt: the command that
\* the method it calls hands to getReplyForCommand (CommandCD, CommandCDUP,
\* CommandPWD, CommandHELP at once, CommandLS and CommandGet once the data
\* channel is set up); the code <<>> where it calls none
executeCommand(command) ==
    LET tok == Split(ToLower(command), " ")
        none == newCommand(<<>>, <<>>)
    IN  IF tok[1] = <<"cd">>
        THEN IF Len(tok) # 2 THEN none ELSE newCommand(CommandCWD, tok[2])
        ELSE IF tok[1] = <<"cdup">>
        THEN IF Len(tok) # 1 THEN none ELSE newCommand(CommandCDUP, <<>>)
        ELSE IF tok[1] = <<"pwd">>
        THEN IF Len(tok) # 1 THEN none ELSE newCommand(CommandPWD, <<>>)
        ELSE IF tok[1] = <<"ls">>
        THEN IF Len(tok) > 2 THEN none ELSE newCommand(CommandLIST, <<>>)
        ELSE IF tok[1] = <<"get">>
        THEN IF Len(tok) # 2 THEN none ELSE newCommand(CommandRETR, tok[2])
        ELSE IF tok[1] = <<"help">>
        THEN IF Len(tok) # 1 THEN none ELSE newCommand(CommandHELP, <<>>)
        ELSE none

\* lines typed at the prompt of the client
TypedLines ==
    {<<w>> : w \in {"ls", "LS", "Ls", "pwd", "PWD", "cdup", "help", "get",
                    "cd", "passive", "dir"}}
    \cup {<<w, " ", a>> : w \in {"ls", "LS", "get", "GET", "Get", "cd", "CD",
                                 "pwd"},
                          a \in {"pub", "Pub", "readme.txt", "README.txt"}}
    \cup {<<"ls", " ", "pub", " ", "Pub">>, <<"get", " ", "pub", " ", "x">>}

CalcInputs ==
    {[NoCalc EXCEPT !.fn = "executeCommand", !.text = t] : t \in TypedLines}
    \cup
    {[NoCalc EXCEPT !.fn = "HandlePORT", !.host = JoinWith(a, "."),
                    !.port = JoinWith(pf, ","),
                    !.arg = [err |-> FALSE, str |-> JoinWith(a \o pf, ",")],
                    !.stage = 1] :
        a \in AddrFields, pf \in PortFields}
    \cup {[NoCalc EXCEPT !.fn = "HandleEPRT", !.host = hp[1], !.port = pt,
                    !.proto = hp[2], !.delim = d,
                    !.arg = [err |-> FALSE,
                             str |-> <<d, hp[2], d>> \o hp[1] \o <<d>>
                                     \o pt \o <<d>>],
                    !.stage = 1] :
        hp \in {<<ClientHost, "1">>, <<<<"fe80", ":", ":", "1">>, "2">>},
        pt \in {FormatInt(21), FormatInt(50000)}, d \in Delims}
    \cup {[NoCalc EXCEPT !.fn = "readReply", !.reply = r, !.next = n] :
        r \in ReplySamples, n \in {<<>>, String(Reply226List) \o CRLF}}
    \cup {[NoCalc EXCEPT !.fn = "readReply", !.text = t, !.stage = 1] :
        t \in RawStreams}
    \cup
    {[NoCalc EXCEPT !.fn = "PORT", !.host = hst, !.port = FormatInt(p)] :
        hst \in Hosts4, p \in PortSamples}
    \cup {[NoCalc EXCEPT !.fn = "EPRT", !.host = hst, !.port = FormatInt(p)] :
        hst \in Hosts4 \cup Hosts6, p \in PortSamples}
    \cup {[NoCalc EXCEPT !.fn = "String", !.reply = newReply(c, m)] :
        c \in {"200", "214"}, m \in Messages}

InitCalc ==
    /\ calc \in CalcInputs
    /\ ipv6 = TRUE
    /\ config = [port |-> TRUE, pasv |-> TRUE]
    /\ h = [s \in Sess |-> NoHandler]
    /\ pc = [s \in Sess |-> "unused"]
    /\ connOpen = [s \in Sess |-> FALSE]
    /\ connErr = [s \in Sess |-> FALSE]
    /\ cmd = [s \in Sess |-> NoCmd]
    /\ sent = [s \in Sess |-> <<>>]
    /\ elapsed = [s \in Sess |-> 0]
    /\ xfer = [s \in Sess |-> NoXfer]
    /\ listeners = [p \in EphemeralPorts |->
                      [state |-> "free", accepts |-> 0, owner |-> 0]]
    /\ crashed = FALSE
    /\ passEver = [s \in Sess |-> FALSE]
    /\ authEvent = [s \in Sess |-> "start"]
    /\ lastUser = [s \in Sess |-> <<>>]
    /\ wire = [s \in Sess |-> <<>>]
    /\ client = NoClient

\* the client builds the argument of a PORT command
EncodePORT ==
    /\ calc.fn = "PORT" /\ calc.stage = 0
    /\ calc' = [calc EXCEPT !.arg = getPORTString(calc.host, calc.port),
                            !.stage = 1]
    /\ UNCHANGED serverVars

\* the server (HandlePORT) or the client (parsePASVString) decodes it
DecodePORT ==
    /\ calc.fn = "PORT" /\ calc.stage = 1 /\ ~calc.arg.err
    /\ calc' = [calc EXCEPT !.out = hostPortToAddr(calc.arg.str),
                            !.stage = 2]
    /\ UNCHANGED serverVars

\* the client builds the argument of an EPRT command
EncodeEPRT ==
    /\ calc.fn = "EPRT" /\ calc.stage = 0
    /\ calc' = [calc EXCEPT !.arg = getEPRTString(calc.host, calc.port),
                            !.stage = 1]
    /\ UNCHANGED serverVars

\* the server (HandleEPRT) decodes it
DecodeEPRT ==
    /\ calc.fn = "EPRT" /\ calc.stage = 1 /\ ~calc.arg.err
    /\ calc' = [calc EXCEPT !.out = parseEPRTArg(calc.arg.str),
                            !.stage = 2]
    /\ UNCHANGED serverVars

\* the server handles a PORT command with the argument calc.arg.str
ParsePORT ==
    /\ calc.fn = "HandlePORT" /\ calc.stage = 1
    /\ LET res == HandlePORT(1, calc.arg.str)
       IN  calc' = [calc EXCEPT !.out = hostPortToAddr(calc.arg.str),
                                !.reply = res.out[1],
                                !.chan = res.h.dataConn.address,
                                !.stage = 2]
    /\ UNCHANGED serverVars

\* the server handles an EPRT command with the argument calc.arg.str
ParseEPRT ==
    /\ calc.fn = "HandleEPRT" /\ calc.stage = 1
    /\ LET res == HandleEPRT(1, calc.arg.str)
       IN  calc' = [calc EXCEPT !.out = parseEPRTArg(calc.arg.str),
                                !.reply = res.out[1],
                                !.chan = res.h.dataConn.address,
                                !.stage = 2]
    /\ UNCHANGED serverVars

\* writeReply serializes a reply
Serialize ==
    /\ calc.fn = "String" /\ calc.stage = 0
    /\ calc' = [calc EXCEPT !.text = String(calc.reply), !.stage = 2]
    /\ UNCHANGED serverVars

\* writeReply: the serialized reply and CRLF go out on the control
\* connection; calc.next is what the server wrote after it and has arrived
\* at the client as well
WriteReply ==
    /\ calc.fn = "readReply" /\ calc.stage = 0
    /\ calc' = [calc EXCEPT !.text = String(calc.reply) \o CRLF \o calc.next,
                            !.stage = 1]
    /\ UNCHANGED serverVars

\* the client reads a reply
ReadReply ==
    /\ calc.fn = "readReply" /\ calc.stage = 1
    /\ LET r == readReply(calc.text)
       IN  calc' = [calc EXCEPT !.out = [err |-> r.err, addr |-> <<>>],
                                !.rply = r.rply, !.parsed = r.parsed,
                                !.rest = r.rest, !.stage = 2]
    /\ UNCHANGED serverVars

\* commandLoop hands the line typed to executeCommand
ExecuteCommand ==
    /\ calc.fn = "executeCommand" /\ calc.stage = 0
    /\ calc' = [calc EXCEPT !.command = executeCommand(calc.text),
                            !.stage = 2]
    /\ UNCHANGED serverVars

NextCalc ==
    \/ ExecuteCommand
    \/ EncodePORT
    \/ DecodePORT
    \/ EncodeEPRT
    \/ DecodeEPRT
    \/ ParsePORT
    \/ ParseEPRT
    \/ Serialize
    \/ WriteReply
    \/ ReadReply

SpecCalc == InitCalc /\ [][NextCalc]_vars

----------------------------------------------------------------------------
(* a client that writes command lines without waiting for the replies *)

\* the lines one control connection holds in flight
MaxWire == 2

\* the lines such a client writes
PipeLines ==
    {Line(CommandUSER, <<"alice">>), Line(CommandPASS, <<"secret">>),
     Line(CommandPWD, <<>>), Line(CommandCWD, <<"pub">>),
     Line(<<"NOOP">>, <<>>), Line(CommandQUIT, <<>>)}

\* the client writes one more line on the control connection
ClientWrite(s) ==
    /\ ~crashed
    /\ connOpen[s]
    /\ pc[s] \in {"read", "handle"}
    /\ Len(wire[s]) < MaxWire
    /\ \E msg \in PipeLines : wire' = [wire EXCEPT ![s] = Append(@, msg)]
    /\ UNCHANGED <<ipv6, calc, client, config, h, pc, connOpen, connErr, cmd,
                   sent, elapsed, xfer, listeners, crashed, passEver,
                   authEvent, lastUser>>

\* readCommand: the goroutine makes a new bufio.Reader on the connection and
\* calls ReadString('\n').  The reader's one conn.Read takes the bytes that
\* have arrived, here the first n lines in flight; ReadString returns the
\* first of them and the others stay in the reader's buffer, which nothing
\* refers to once the goroutine has sent the line to msgChan.
ReadPipelined(s) ==
    /\ Reading(s)
    /\ wire[s] # <<>>
    /\ \E n \in 1..Len(wire[s]) :
         wire' = [wire EXCEPT ![s] = SubSeq(@, n + 1, Len(@))]
    /\ cmd' = [cmd EXCEPT ![s] = readCommand(Head(wire[s]))]
    /\ sent' = [sent EXCEPT ![s] = <<>>]
    /\ xfer' = [xfer EXCEPT ![s] = NoXfer]
    /\ pc' = [pc EXCEPT ![s] = "handle"]
    /\ elapsed' = [elapsed EXCEPT ![s] = 0]
    /\ UNCHANGED <<ipv6, calc, client, config, h, connOpen, connErr,
                   listeners, crashed, passEver, authEvent, lastUser>>

\* the client has closed its end after everything it wrote was read
EOFPipelined(s) == wire[s] = <<>> /\ ReadEOF(s)

NextPipelined ==
    \E s \in Sess :
        \/ Accept(s)
        \/ ClientWrite(s)
        \/ ReadPipelined(s)
        \/ EOFPipelined(s)
        \/ Quit(s)
        \/ NotRecognized(s)
        \/ Dispatch(s, CommandUSER)
        \/ Dispatch(s, CommandPASS)
        \/ Dispatch(s, CommandPWD)
        \/ Dispatch(s, CommandCWD)

SpecPipelined == Init /\ [][NextPipelined]_vars

----------------------------------------------------------------------------
(* progress: what the goroutine of a session is bound to do *)

\* the lines of a client that logs in and transfers
LiveLines ==
    {Line(CommandUSER, <<"alice">>), Line(CommandPASS, <<"secret">>),
     Line(CommandPORT, PortArg(ClientHost, 50000)),
     Line(CommandEPSV, <<>>), Line(CommandLIST, <<>>),
     Line(CommandRETR, <<"readme.txt">>), Line(CommandQUIT, <<>>)}

ReadLive(s) == ReadFrom(s, LiveLines)

NextLive ==
    \E s \in Sess :
        \/ Accept(s)
        \/ Tick(s)
        \/ ReadLive(s)
        \/ ReadEOF(s)
        \/ ReadTimeout(s)
        \/ ReadError(s)
        \/ Quit(s)
        \/ Dispatch(s, CommandUSER)
        \/ Dispatch(s, CommandPASS)
        \/ Dispatch(s, CommandPORT)
        \/ Dispatch(s, CommandEPSV)
        \/ Dispatch(s, CommandLIST)
        \/ Dispatch(s, CommandRETR)
        \/ DataWrite(s)

\* the steps the goroutine of session s takes without waiting for the
\* client: newHandler runs, the timer of readCommand runs and fires, a read
\* of a broken connection returns its error at once, the quit branch of
\* handle returns, and net.DialTimeout returns within connTimeout, so the
\* write of an active data connection ends.  ln.Accept has no deadline and
\* returns only once a client has connected: the write of a passive data
\* connection is not among them.
ServerStep(s) ==
    \/ Accept(s)
    \/ Tick(s)
    \/ ReadTimeout(s)
    \/ connErr[s] /\ ReadError(s)
    \/ Quit(s)
    \/ h[s].dataConn.type # "passive" /\ DataWrite(s)

\* a goroutine that can run does run, and a handler that handle called is
\* left again (for the loop of handle or for dataConn.write): the handlers
\* have no loop and wait for nothing
FairnessLive ==
    \A s \in Sess : WF_vars(ServerStep(s)) /\ []<>(~Handling(s))

SpecLive == Init /\ [][NextLive]_vars /\ FairnessLive

----------------------------------------------------------------------------
(* two clients at once: StartServer starts one goroutine per connection *)

\* the lines of two clients that log in, change directory and set up a data
\* channel
PairLines ==
    {Line(CommandUSER, <<"alice">>), Line(CommandUSER, <<"bob">>),
     Line(CommandPASS, <<"secret">>), Line(CommandCWD, <<"pub">>),
     Line(CommandPORT, PortArg(ClientHost, 50000)),
     Line(CommandEPSV, <<>>), Line(CommandQUIT, <<>>)}

ReadPair(s) == ReadFrom(s, PairLines)

\* every connection of the listen loop has been accepted by the kernel
InitPair ==
    /\ ipv6 = TRUE
    /\ calc = NoCalc
    /\ config \in Configs
    /\ h = [s \in Sess |-> NoHandler]
    /\ pc = [s \in Sess |-> "pending"]
    /\ connOpen = [s \in Sess |-> TRUE]
    /\ connErr = [s \in Sess |-> FALSE]
    /\ cmd = [s \in Sess |-> NoCmd]
    /\ sent = [s \in Sess |-> <<>>]
    /\ elapsed = [s \in Sess |-> 0]
    /\ xfer = [s \in Sess |-> NoXfer]
    /\ listeners = [p \in EphemeralPorts |->
                      [state |-> "free", accepts |-> 0, owner |-> 0]]
    /\ crashed = FALSE
    /\ passEver = [s \in Sess |-> FALSE]
    /\ authEvent = [s \in Sess |-> "start"]
    /\ lastUser = [s \in Sess |-> <<>>]
    /\ wire = [s \in Sess |-> <<>>]
    /\ client = NoClient

NextPair ==
    \E s \in Sess :
        \/ Accept(s)
        \/ ReadPair(s)
        \/ ReadEOF(s)
        \/ Quit(s)
        \/ Dispatch(s, CommandUSER)
        \/ Dispatch(s, CommandPASS)
        \/ Dispatch(s, CommandCWD)
        \/ Dispatch(s, CommandPORT)
        \/ Dispatch(s, CommandEPSV)

SpecPair == InitPair /\ [][NextPair]_vars

----------------------------------------------------------------------------
(* the client program: Client.CommandLS and Client.CommandGet *)

\* number of transfer commands the user types
MaxTransfers == 3

\* the address of the server end of the control connection (c.remoteAddr)
ServerAddr == <<"10", ".", "0", ".", "0", ".", "1", ":", "21">>
\* the addresses of the client end (c.localAddr), IPv4 or IPv6
ClientAddrs == {ClientHost \o <<":", "40001">>,
                <<"[", "fe80", ":", ":", "1", "]", ":", "40001">>}
\* the port of the listener net.Listen(":0") opens at the client
ClientDataPort == <<"50000">>

\* replies on the control connection: those the server writes to PORT,
\* EPRT, PASV, EPSV, LIST and RETR, a 229 without the port in parentheses,
\* and replies with the other codes that CommandLS and CommandGet name
ServerReplies ==
    {newReply("200", <<"PORT command accepted.">>),
     newReply("550", <<"PORT mode not available.">>),
     newReply("522", <<"Unrecognized address family identifier.">>),
     newReply("227", <<"Entering Passive Mode (", "10", ",", "0", ",", "0",
                       ",", "1", ",", "195", ",", "81", ").">>),
     newReply("229", <<"Entering Extended Passive Mode (|||", "50000",
                       "|).">>),
     newReply("229", <<"Entering Extended Passive Mode">>),
     Reply501, Reply530NotLoggedIn, Reply421Server, Reply550FileAction,
     Reply150List, Reply226List, Reply451List,
     newReply("125", <<"Data connection already open.">>),
     newReply("250", <<"Requested file action okay.">>),
     newReply("425", <<"Can't open data connection.">>),
     newReply("450", <<"Requested file action not taken.">>),
     newReply("503", <<"Bad sequence of commands.">>)}

\* the replies the client can read: what readReply returns for the line of
\* a reply of ServerReplies
ClientReplies ==
    {readReply(String(r) \o CRLF).rply : r \in ServerReplies}

\* the lexemes that hold the '(' and the ')' of a reply message
ParenOpen == {"Entering Passive Mode (", "Entering Extended Passive Mode (|||"}
ParenClose == {").", "|)."}

\* parseEPSVString: the text between '(' and ')' without the bars around it
parseEPSVString(msg) ==
    LET opens == {i \in 1..Len(msg) : msg[i] \in ParenOpen}
        closes == {i \in 1..Len(msg) : msg[i] \in ParenClose}
    IN  IF opens = {} \/ closes = {} THEN [err |-> TRUE, port |-> <<>>]
        ELSE LET strt == CHOOSE i \in opens : \A j \in opens : i <= j
                 end == CHOOSE i \in closes : \A j \in closes : i <= j
             IN  [err |-> FALSE,
                  port |-> Trim(SubSeq(msg, strt + 1, end - 1), {"|"})]

\* parsePASVString: hostPortToAddr of the text between '(' and ')'
parsePASVString(msg) ==
    LET opens == {i \in 1..Len(msg) : msg[i] \in ParenOpen}
        closes == {i \in 1..Len(msg) : msg[i] \in ParenClose}
    IN  IF opens = {} \/ closes = {}
        THEN [err |-> "invalid PASV message", addr |-> <<>>]
        ELSE LET strt == CHOOSE i \in opens : \A j \in opens : i <= j
                 end == CHOOSE i \in closes : \A j \in closes : i <= j
             IN  hostPortToAddr(SubSeq(msg, strt + 1, end - 1))

\* net.DialTimeout can connect to addr only if it names a host and a port
Dialable(addr) ==
    LET hp == SplitHostPort(addr)
    IN  /\ ~hp.err
        /\ ParseIP(hp.host) # "nil"
        /\ ScanInt(hp.port) \in 1..MaxUint16

\* the switch on rply.StatusCode of CommandPORT, CommandEPRT, CommandPASV and
\* CommandEPSV: nil ("ok"), an error ("err") or closeAndExit ("exit")
SetupStatus(code, status) ==
    IF code = CommandPORT
    THEN IF status = "200" THEN "ok"
         ELSE IF status \in {"500", "501", "530"} THEN "err" ELSE "exit"
    ELSE IF code = CommandEPRT
    THEN IF status = "200" THEN "ok"
         ELSE IF status \in {"500", "501", "530", "522"} THEN "err"
         ELSE "exit"
    ELSE IF code = CommandPASV
    THEN IF status = "227" THEN "ok"
         ELSE IF status \in {"500", "502", "530", "501"} THEN "err"
         ELSE "exit"
    ELSE IF status = "229" THEN "ok"
         ELSE IF status \in {"500", "501", "530", "522"} THEN "err"
         ELSE "exit"

\* Client.initPassiveDataConn after the reply: the address dialled
PassiveAddr(c, msg) ==
    IF c.extended
    THEN LET p == parseEPSVString(msg)
             hp == SplitHostPort(ServerAddr)
         IN  IF p.err \/ hp.err THEN [err |-> TRUE, addr |-> <<>>]
             ELSE [err |-> FALSE, addr |-> JoinHostPort(hp.host, p.port)]
    ELSE LET a == hostPortToAddr(msg)
         IN  [err |-> a.err # "", addr |-> a.addr]

\* the code of the transfer command of CommandLS and of CommandGet
TransferCode(kind) == IF kind = "ls" THEN CommandLIST ELSE CommandRETR

\* CommandLS and CommandGet writing LIST or RETR whatever openDataConn
\* returned
IssueTransferAnyway(c, err) ==
    [c EXCEPT !.written = Append(@, TransferCode(c.kind)), !.pc = "reply1"]

\* CommandLS and CommandGet once openDataConn has returned: with an error
\* they return to the prompt, without one they write LIST or RETR
IssueTransfer(c, err) ==
    IF err THEN [c EXCEPT !.pc = "prompt"]
    ELSE [c EXCEPT !.written = Append(@, TransferCode(c.kind)),
                   !.pc = "reply1"]

\* what the client program leaves alone
clientFrame == <<config, h, pc, connOpen, connErr, cmd, sent, elapsed, xfer,
                 listeners, crashed, passEver, authEvent, lastUser, ipv6,
                 wire, calc>>

\* executeCommand: "active", "passive"
UserMode(t) ==
    /\ client.pc = "prompt"
    /\ client.dataConnType # t
    /\ client' = [client EXCEPT !.dataConnType = t]
    /\ UNCHANGED clientFrame

\* executeCommand: "extended on", "extended off"
UserExtended(b) ==
    /\ client.pc = "prompt"
    /\ client.extended # b
    /\ client' = [client EXCEPT !.extended = b]
    /\ UNCHANGED clientFrame

\* executeCommand "ls" or "get": CommandLS or CommandGet up to the first
\* readReply of openDataConn.  Active: newActiveDataConn opens the listener
\* (listenOk), issuePortCommand writes PORT or EPRT.  Passive: CommandEPSV
\* or CommandPASV is written.
StartedTransfer(c0, kind, listenOk) ==
    LET c == [c0 EXCEPT !.kind = kind, !.listener = FALSE,
                        !.answer = "", !.dialed = FALSE, !.n = @ + 1]
        host == SplitHostPort(c.localAddr).host
        ip == ParseIP(host)
        legacy == ip = "v4" /\ ~c.extended
        arg == IF legacy THEN getPORTString(host, ClientDataPort)
               ELSE getEPRTString(host, ClientDataPort)
    IN  IF c.dataConnType = "active"
        THEN IF ~listenOk THEN IssueTransfer(c, TRUE)
             ELSE IF ip = "nil" \/ arg.err
             THEN IssueTransfer([c EXCEPT !.listener = TRUE], TRUE)
             ELSE [c EXCEPT !.listener = TRUE,
                            !.written = Append(@, IF legacy
                                                  THEN CommandPORT
                                                  ELSE CommandEPRT),
                            !.pc = "setup"]
        ELSE [c EXCEPT !.written = Append(@, IF c.extended
                                             THEN CommandEPSV
                                             ELSE CommandPASV),
                       !.pc = "setup"]

StartTransfer(kind, listenOk) ==
    /\ client.pc = "prompt"
    /\ client.n < MaxTransfers
    /\ client' = StartedTransfer(client, kind, listenOk)
    /\ UNCHANGED clientFrame

\* the readReply of CommandPORT, CommandEPRT, CommandPASV or CommandEPSV
\* returns r, the rest of openDataConn runs (the dial of newPassiveDataConn
\* succeeds if dialOk) and CommandLS or CommandGet goes on
SetupReplied(c0, r, dialOk) ==
    LET code == c0.written[Len(c0.written)]
        st == SetupStatus(code, r.StatusCode)
        c == [c0 EXCEPT !.answer = r.StatusCode, !.rply = r]
        a == PassiveAddr(c, r.Message)
        dial == ~a.err /\ Dialable(a.addr) /\ dialOk
    IN  IF st = "exit" THEN [c EXCEPT !.pc = "exited"]
        ELSE IF st = "err" THEN IssueTransfer(c, TRUE)
        ELSE IF c.dataConnType = "active" THEN IssueTransfer(c, FALSE)
        ELSE IF a.err THEN IssueTransfer(c, TRUE)
        ELSE IssueTransfer([c EXCEPT !.dialed = dial, !.addr = a.addr],
                           ~dial)

SetupReply(r, dialOk) ==
    /\ client.pc = "setup"
    /\ client' = SetupReplied(client, r, dialOk)
    /\ UNCHANGED clientFrame

\* a readReply of the client returns an error (the connection is broken or
\* the line read is no reply): the command returns to the prompt
ReadFailed(c0) ==
    LET c == [c0 EXCEPT !.rply = newReply("", <<>>)]
    IN  IF c.pc = "setup" THEN IssueTransfer(c, TRUE)
        ELSE [c EXCEPT !.pc = "prompt"]

ClientReadError ==
    /\ client.pc \in {"setup", "reply1", "reply2"}
    /\ client' = ReadFailed(client)
    /\ UNCHANGED clientFrame

\* the reply to LIST or RETR: on 125 and 150 data.read runs (readOk)
TransferReplied(c0, r, readOk) ==
    LET c == [c0 EXCEPT !.rply = r]
        failed == IF c.kind = "ls"
                  THEN {"450", "500", "502", "530", "501"}
                  ELSE {"450", "550", "500", "502", "530", "501"}
    IN  IF r.StatusCode \in {"125", "150"}
        THEN [c EXCEPT !.pc = IF readOk THEN "reply2" ELSE "prompt"]
        ELSE IF r.StatusCode \in failed THEN [c EXCEPT !.pc = "prompt"]
        ELSE [c EXCEPT !.pc = "exited"]

TransferReply(r, readOk) ==
    /\ client.pc = "reply1"
    /\ client' = TransferReplied(client, r, readOk)
    /\ UNCHANGED clientFrame

\* the reply that ends the transfer
FinalReplied(c0, r) ==
    LET c == [c0 EXCEPT !.rply = r]
        known == IF c.kind = "ls"
                 THEN {"226", "250", "425", "426", "451"}
                 ELSE {"226", "250", "425", "426", "550"}
    IN  [c EXCEPT !.pc = IF r.StatusCode \in known
                         THEN "prompt" ELSE "exited"]

FinalReply(r) ==
    /\ client.pc = "reply2"
    /\ client' = FinalReplied(client, r)
    /\ UNCHANGED clientFrame

\* StartClient has connected and logIn has returned: commandLoop prompts
InitClient ==
    /\ ipv6 = TRUE
    /\ calc = NoCalc
    /\ config \in Configs
    /\ h = [s \in Sess |-> NoHandler]
    /\ pc = [s \in Sess |-> IF s = 1 THEN "pending" ELSE "unused"]
    /\ connOpen = [s \in Sess |-> s = 1]
    /\ connErr = [s \in Sess |-> FALSE]
    /\ cmd = [s \in Sess |-> NoCmd]
    /\ sent = [s \in Sess |-> <<>>]
    /\ elapsed = [s \in Sess |-> 0]
    /\ xfer = [s \in Sess |-> NoXfer]
    /\ listeners = [p \in EphemeralPorts |->
                      [state |-> "free", accepts |-> 0, owner |-> 0]]
    /\ crashed = FALSE
    /\ passEver = [s \in Sess |-> FALSE]
    /\ authEvent = [s \in Sess |-> "start"]
    /\ lastUser = [s \in Sess |-> <<>>]
    /\ wire = [s \in Sess |-> <<>>]
    /\ \E a \in ClientAddrs :
          client = [NoClient EXCEPT !.pc = "prompt", !.localAddr = a]

NextClient ==
    \/ \E t \in {"active", "passive"} : UserMode(t)
    \/ \E b \in BOOLEAN : UserExtended(b)
    \/ \E kind \in {"ls", "get"}, listenOk \in BOOLEAN :
          StartTransfer(kind, listenOk)
    \/ \E r \in ClientReplies, dialOk \in BOOLEAN : SetupReply(r, dialOk)
    \/ ClientReadError
    \/ \E r \in ClientReplies, readOk \in BOOLEAN : TransferReply(r, readOk)
    \/ \E r \in ClientReplies : FinalReply(r)

SpecClient == InitClient /\ [][NextClient]_vars

----------------------------------------------------------------------------
(* the client program and the session that serves it: the replies travel *)
(* over the control connection *)

\* the session of the client: 1
ClientSess == 1

\* the replies the handler of a command writes on a logged-in session:
\* HandlePORT, HandleEPRT, HandlePASV (which never writes 227), HandleEPSV,
\* and the first reply of HandleLIST and HandleRETR
AnswersTo(code) ==
    IF code = CommandPORT
    THEN {newReply("200", <<"PORT command accepted.">>), Reply501,
          newReply("550", <<"PORT mode not available.">>)}
    ELSE IF code = CommandEPRT
    THEN {newReply("200", <<"EPRT command accepted.">>), Reply501,
          newReply("522", <<"Unrecognized address family identifier.">>)}
    ELSE IF code = CommandPASV
    THEN {newReply("421", <<"PASV failed, use EPSV.">>), Reply421Server}
    ELSE IF code = CommandEPSV
    THEN {newReply("229", <<"Entering Extended Passive Mode (|||", "50000",
                            "|).">>),
          newReply("421", <<"EPSV command failed.">>)}
    ELSE IF code = CommandLIST
    THEN {Reply150List, newReply("550", <<"Directory listing failed.">>)}
    ELSE IF code = CommandRETR
    THEN {Reply150File, Reply550FileAction}
    ELSE {Reply500NotRecognized(code)}

\* the reply that ends the transfer of HandleLIST and of HandleRETR
FinalAnswers(code) ==
    IF code = CommandLIST THEN {Reply226List, Reply451List}
    ELSE {Reply226File, Reply451File}

\* what the replies leave alone
replyFrame == <<config, h, connOpen, connErr, elapsed, xfer, listeners,
                crashed, passEver, authEvent, lastUser, ipv6, calc>>

\* writeReply: the line of r goes out on the control connection and arrives
\* at the client
Arrived(c, r) == [c EXCEPT !.inbox = @ \o String(r) \o CRLF]

\* the lines of the commands that d has written and c had not (the
\* arguments are left out)
NewLines(c, d) ==
    [i \in 1..(Len(d.written) - Len(c.written)) |->
        Line(d.written[Len(c.written) + i], <<>>)]

\* a step of the client program that takes it from client to d
ClientStep(d) ==
    /\ client' = d
    /\ wire' = [wire EXCEPT ![ClientSess] = @ \o NewLines(client, d)]
    /\ UNCHANGED <<pc, cmd, sent>>
    /\ UNCHANGED replyFrame

\* handle calls the handler of the command read: it writes its reply; after
\* 150 the handler goes on to dataConn.write
ServerAnswer ==
    /\ Handling(ClientSess)
    /\ \E r \in AnswersTo(cmd[ClientSess].Code) :
         /\ sent' = [sent EXCEPT ![ClientSess] = Append(@, r)]
         /\ client' = Arrived(client, r)
         /\ pc' = [pc EXCEPT ![ClientSess] =
                      IF r.StatusCode = "150" THEN "xfer" ELSE "read"]
    /\ UNCHANGED <<wire, cmd>>
    /\ UNCHANGED replyFrame

\* HandleLIST and HandleRETR after dataConn.write has returned: 226 or 451
ServerFinish ==
    /\ ~crashed
    /\ pc[ClientSess] = "xfer"
    /\ \E r \in FinalAnswers(cmd[ClientSess].Code) :
         /\ sent' = [sent EXCEPT ![ClientSess] = Append(@, r)]
         /\ client' = Arrived(client, r)
    /\ pc' = [pc EXCEPT ![ClientSess] = "read"]
    /\ UNCHANGED <<wire, cmd>>
    /\ UNCHANGED replyFrame

\* executeCommand: "active", "passive", "extended on", "extended off"
TypeMode(t, b) ==
    /\ client.pc = "prompt"
    /\ client.dataConnType # t \/ client.extended # b
    /\ ClientStep([client EXCEPT !.dataConnType = t, !.extended = b])

\* executeCommand "ls" or "get" up to the first readReply
TypeTransfer(kind, listenOk) ==
    /\ client.pc = "prompt"
    /\ client.n < MaxTransfers
    /\ ClientStep(StartedTransfer(client, kind, listenOk))

\* a readReply of the client returns: its new bufio.Reader has taken what
\* had arrived, and the command goes on with the reply or with the error
ClientRead(dialOk, readOk) ==
    /\ client.pc \in {"setup", "reply1", "reply2"}
    /\ client.inbox # <<>>
    /\ LET rr == readReply(client.inbox)
           c == [client EXCEPT !.inbox = rr.rest]
       IN  ClientStep(IF rr.err # "" THEN ReadFailed(c)
                      ELSE IF c.pc = "setup"
                      THEN SetupReplied(c, rr.rply, dialOk)
                      ELSE IF c.pc = "reply1"
                      THEN TransferReplied(c, rr.rply, readOk)
                      ELSE FinalReplied(c, rr.rply))

\* the client has logged in and the session waits for its next command
InitReplies ==
    /\ ipv6 = TRUE
    /\ calc = NoCalc
    /\ config = [port |-> TRUE, pasv |-> TRUE]
    /\ h = [s \in Sess |-> NoHandler]
    /\ pc = [s \in Sess |-> IF s = ClientSess THEN "read" ELSE "unused"]
    /\ connOpen = [s \in Sess |-> s = ClientSess]
    /\ connErr = [s \in Sess |-> FALSE]
    /\ cmd = [s \in Sess |-> NoCmd]
    /\ sent = [s \in Sess |-> <<>>]
    /\ elapsed = [s \in Sess |-> 0]
    /\ xfer = [s \in Sess |-> NoXfer]
    /\ listeners = [p \in EphemeralPorts |->
                      [state |-> "free", accepts |-> 0, owner |-> 0]]
    /\ crashed = FALSE
    /\ passEver = [s \in Sess |-> FALSE]
    /\ authEvent = [s \in Sess |-> "start"]
    /\ lastUser = [s \in Sess |-> <<>>]
    /\ wire = [s \in Sess |-> <<>>]
    /\ \E a \in ClientAddrs :
          client = [NoClient EXCEPT !.pc = "prompt", !.localAddr = a]

NextReplies ==
    \/ \E t \in {"active", "passive"}, b \in BOOLEAN : TypeMode(t, b)
    \/ \E kind \in {"ls", "get"}, listenOk \in BOOLEAN :
          TypeTransfer(kind, listenOk)
    \/ \E dialOk \in BOOLEAN, readOk \in BOOLEAN : ClientRead(dialOk, readOk)
    \/ ReadPipelined(ClientSess)
    \/ ServerAnswer
    \/ ServerFinish

SpecReplies == InitReplies /\ [][NextReplies]_vars

----------------------------------------------------------------------------
(* properties *)

\* the command code of the current command as handle compares it
CmdCode(s) == ToUpper(cmd[s].Code)
\* the status codes of a sequence of replies
Codes(out) == [i \in 1..Len(out) |-> out[i].StatusCode]
\* the host of the control connection's peer
ControlHost(s) == SplitHostPort(RemoteAddr(s)).host
\* session s has read a command and its handler has returned
Handled(s) == pc[s] = "read" /\ cmd[s].err = ""
\* session s takes the step that ends the handling of its current command
Returns(s) == pc[s] = "handle" /\ pc'[s] # "handle"

\* C1: while no PASS has been accepted on a session, each of PWD, CWD, CDUP,
\* PORT, EPRT, PASV, EPSV, LIST and RETR is answered with the one reply 530
\* and leaves cwd, the data channel and the listeners as they were; the
\* command table maps only USER, PASS, HELP and QUIT to their handlers.
C1_PreAuthGate ==
    /\ [](\A s \in Sess :
            ~passEver[s] =>
                /\ \A c \in Privileged :
                       h[s].commands[c] = "writeError530NotLoggedIn"
                /\ h[s].commands[CommandUSER] = "HandleUSER"
                /\ h[s].commands[CommandPASS] = "HandlePASS"
                /\ h[s].commands[CommandHELP] = "HandleHELP"
                /\ h[s].commands[CommandQUIT] = "HandleQUIT")
    /\ [][\A s \in Sess :
            (Returns(s) /\ ~passEver[s] /\ cmd[s].err = ""
             /\ CmdCode(s) \in Privileged) =>
                /\ sent'[s] = <<Reply530NotLoggedIn>>
                /\ pc'[s] = "read"
                /\ h'[s].dir = h[s].dir
                /\ h'[s].dataConn = h[s].dataConn
                /\ listeners' = listeners]_vars

\* C1 witness: a PORT with a valid argument was answered 530 before any login
C1_Witness ==
    \E s \in Sess :
        /\ Handled(s) /\ ~passEver[s]
        /\ CmdCode(s) = CommandPORT
        /\ hostPortToAddr(cmd[s].Arugment).err = ""
        /\ sent[s] = <<Reply530NotLoggedIn>>

\* C2: the reply 230 "Login successful." is written, the logged-in flag set
\* and the logged-in command table installed only by a PASS p where the
\* username u of the last USER answered 331 is a key of users and
\* users[u] = p; a PASS for a pending username that is not a key of users is
\* answered 530.
C2_LoginOnlyByMatchingPass ==
    /\ [](\A s \in Sess :
            h[s].username # <<>> => h[s].username = lastUser[s])
    /\ [][\A s \in Sess :
            /\ (\/ HasReply(sent'[s], Reply230Login) /\ sent'[s] # sent[s]
                \/ h'[s].isLoggedIn /\ ~h[s].isLoggedIn
                \/ /\ h'[s].commands = initCommandTableLoggedIn
                   /\ h[s].commands # initCommandTableLoggedIn) =>
                    /\ Returns(s) /\ cmd[s].err = ""
                    /\ CmdCode(s) = CommandPASS
                    /\ lastUser[s] \in DOMAIN users
                    /\ users[lastUser[s]] = cmd[s].Arugment
                    /\ sent'[s] = <<Reply230Login>>
                    /\ h'[s].isLoggedIn
                    /\ h'[s].commands = initCommandTableLoggedIn
            /\ (Returns(s) /\ cmd[s].err = "" /\ CmdCode(s) = CommandPASS
                /\ h[s].username # <<>>
                /\ h[s].username \notin DOMAIN users) =>
                    /\ sent'[s] = <<Reply530Login>>
                    /\ h'[s].commands = h[s].commands
                    /\ h'[s].isLoggedIn = h[s].isLoggedIn]_vars

\* C2 witness: bob logged in with his password
C2_Witness ==
    \E s \in Sess :
        /\ Handled(s) /\ CmdCode(s) = CommandPASS
        /\ sent[s] = <<Reply230Login>>
        /\ lastUser[s] = <<"bob">> /\ cmd[s].Arugment = users[<<"bob">>]
        /\ h[s].isLoggedIn /\ h[s].commands = initCommandTableLoggedIn

\* C3: after a USER answered 331, and until a PASS is answered 230, every
\* privileged command is answered with the one reply 530.
C3_UserResetsLogin ==
    \A s \in Sess :
        (Handled(s) /\ authEvent[s] = "user" /\ CmdCode(s) \in Privileged) =>
            sent[s] = <<Reply530NotLoggedIn>>

\* C4: a PASS with a non-matching password for a pending username is
\* answered with the one reply 530 and clears the username, and from then
\* until a PASS is answered 230 every privileged command is answered 530.
C4_FailedPassDropsLogin ==
    /\ [][\A s \in Sess :
            (Returns(s) /\ cmd[s].err = "" /\ CmdCode(s) = CommandPASS
             /\ h[s].username # <<>>
             /\ (h[s].username \notin DOMAIN users
                 \/ users[h[s].username] # cmd[s].Arugment)) =>
                sent'[s] = <<Reply530Login>> /\ h'[s].username = <<>>]_vars
    /\ [](\A s \in Sess :
            (Handled(s) /\ authEvent[s] = "passFail"
             /\ CmdCode(s) \in Privileged) =>
                sent[s] = <<Reply530NotLoggedIn>>)

QuitSpellings == {<<"QUIT">>, <<"quit">>, <<"Quit">>}

\* C6: a QUIT, in any spelling and with any argument, in any state of the
\* session, is answered with the one reply 221 and the control connection is
\* closed; a closed session reads nothing and writes nothing any more.
C6_Quit ==
    /\ [](\A s \in Sess :
            (cmd[s].err = "" /\ cmd[s].Code \in QuitSpellings
             /\ pc[s] # "handle") =>
                pc[s] = "closed" /\ sent[s] = <<Reply221>> /\ ~connOpen[s])
    /\ [][\A s \in Sess :
            pc[s] = "closed" =>
                /\ pc'[s] = "closed" /\ ~connOpen'[s]
                /\ sent'[s] = sent[s] /\ cmd'[s] = cmd[s]
                /\ h'[s] = h[s]]_vars

\* C6 witness: "quit now" closed a session that was logged in
C6_Witness ==
    \E s \in Sess :
        /\ pc[s] = "closed" /\ ~connOpen[s]
        /\ cmd[s].Code = <<"quit">> /\ cmd[s].Arugment = <<"now">>
        /\ h[s].isLoggedIn
        /\ sent[s] = <<Reply221>>

\* C7: the reply 421 "Timeout." is written only by a session that has been
\* blocked in readCommand for IdleTimeout seconds, it is the only reply of
\* that read and the connection is closed with it; no read waits longer
\* than IdleTimeout; every readCommand starts its timer at zero; the timeout
\* does not fire while a command is handled.
C7_IdleTimeout ==
    /\ [](\A s \in Sess :
            (pc[s] = "read" /\ ~connErr[s]) => elapsed[s] <= IdleTimeout)
    /\ [][\A s \in Sess :
            /\ (HasReply(sent'[s], Reply421Timeout) /\ sent'[s] # sent[s]) =>
                    /\ pc[s] = "read" /\ elapsed[s] >= IdleTimeout
                    /\ sent'[s] = <<Reply421Timeout>>
                    /\ pc'[s] = "closed" /\ ~connOpen'[s]
            /\ (pc'[s] = "read" /\ pc[s] # "read") => elapsed'[s] = 0
            /\ pc[s] = "closed" => sent'[s] = sent[s] /\ pc'[s] = "closed"]_vars

\* C7 witness: a session that had logged in timed out, and the timeout was
\* the only reply after its last command
C7_Witness ==
    \E s \in Sess :
        /\ pc[s] = "closed" /\ ~connOpen[s]
        /\ passEver[s]
        /\ elapsed[s] >= IdleTimeout
        /\ sent[s] = <<Reply421Timeout>>

\* the path that LIST or RETR of the current command works on
TransferPath(s) ==
    LET a == cmd[s].Arugment
    IN  IF CmdCode(s) = CommandLIST /\ a = <<>> THEN h[s].dir
        ELSE IF IsAbs(a) THEN a ELSE Join(h[s].dir, a)
\* what the path of the current LIST or RETR has to be
TransferKind(s) == IF CmdCode(s) = CommandLIST THEN "dir" ELSE "file"

\* C8: a LIST or RETR of a logged-in session whose handler has returned was
\* answered either with the one reply 550 and no call of the data channel's
\* write (always so when the path is not a directory / regular file), or
\* with 150, one call of write, and then 226 if write returned nil and 451
\* if it returned an error; while write runs only the 150 has been written;
\* 226 and 451 directly follow a 150.
C8_TransferReplyOrder ==
    \A s \in Sess :
        /\ pc[s] = "xfer" =>
              Codes(sent[s]) = <<"150">> /\ xfer[s].attempts = 0
        /\ (Handled(s) /\ CmdCode(s) \in {CommandLIST, CommandRETR}
            /\ h[s].commands = initCommandTableLoggedIn) =>
              /\ \/ Codes(sent[s]) = <<"550">> /\ xfer[s].attempts = 0
                 \/ /\ Codes(sent[s]) = <<"150", "226">>
                    /\ xfer[s].attempts = 1 /\ xfer[s].ok
                 \/ /\ Codes(sent[s]) = <<"150", "451">>
                    /\ xfer[s].attempts = 1 /\ ~xfer[s].ok
              /\ Lstat(TransferPath(s)) # TransferKind(s) =>
                    Codes(sent[s]) = <<"550">>
        /\ \A i \in 1..Len(sent[s]) :
              sent[s][i].StatusCode \in {"226", "451"} =>
                  i > 1 /\ sent[s][i - 1].StatusCode = "150"

\* C8 witness: a LIST whose listing was produced and whose write failed was
\* answered 150 and then 451
C8_Witness ==
    \E s \in Sess :
        /\ Handled(s) /\ CmdCode(s) = CommandLIST
        /\ sent[s] = <<Reply150List, Reply451List>>
        /\ xfer[s].attempts = 1 /\ ~xfer[s].ok

\* C9: a passive listener that a successful write has accepted on is closed
\* when the handler returns, and no listener accepts more than one
\* connection.
C9_PassiveOneShot ==
    /\ \A s \in Sess :
          (Handled(s) /\ xfer[s].mode = "passive" /\ xfer[s].ok) =>
              listeners[xfer[s].ln].state = "closed"
    /\ \A p \in EphemeralPorts : listeners[p].accepts <= 1

\* C10: in passive mode, when the host accepted on the listener is not the
\* host of the control connection's peer, conn.Write is not called, write
\* fails and the command is answered 150, 451; conn.Write is only called on
\* an accepted connection whose host is the control peer's.
C10_AntiHijack ==
    \A s \in Sess :
        /\ (xfer[s].mode = "passive" /\ xfer[s].peer # <<>>
            /\ xfer[s].peer # ControlHost(s)) =>
              /\ ~xfer[s].wrote /\ ~xfer[s].ok
              /\ pc[s] = "read" => Codes(sent[s]) = <<"150", "451">>
        /\ (xfer[s].mode = "passive" /\ xfer[s].wrote) =>
              xfer[s].peer = ControlHost(s)

\* C10 witness: another host connected to the listener of a RETR, nothing
\* was written to it and the RETR was answered 451
C10_Witness ==
    \E s \in Sess :
        /\ Handled(s) /\ CmdCode(s) = CommandRETR
        /\ xfer[s].mode = "passive" /\ xfer[s].peer = OtherHost
        /\ ~xfer[s].wrote
        /\ sent[s] = <<Reply150File, Reply451File>>

\* session s is logged in: the logged-in command table is installed
LoggedIn(s) == h[s].commands = initCommandTableLoggedIn

\* the current command of session s asks for a mode the configuration has
\* switched off
DisabledMode(s) ==
    /\ cmd[s].err = "" /\ LoggedIn(s)
    /\ \/ CmdCode(s) \in {CommandPORT, CommandEPRT} /\ ~config.port
       \/ CmdCode(s) \in {CommandPASV, CommandEPSV} /\ ~config.pasv

\* C11: in a logged-in session a PORT or EPRT with port_enabled off, and a
\* PASV or EPSV with pasv_enabled off, whatever its argument, is answered
\* with the one reply 550 (the process does not die of it), the data channel
\* stays as it was and no listener is opened.
C11_DisabledModes ==
    [][\A s \in Sess :
        (pc[s] = "handle" /\ DisabledMode(s)) =>
            /\ crashed' = crashed
            /\ Returns(s) =>
                  /\ Codes(sent'[s]) = <<"550">>
                  /\ pc'[s] = "read"
                  /\ h'[s].dataConn = h[s].dataConn
                  /\ listeners' = listeners]_vars

\* C11 witness: with port_enabled off, an EPRT with the empty argument was
\* answered 550 in a logged-in session
C11_Witness ==
    \E s \in Sess :
        /\ Handled(s) /\ LoggedIn(s) /\ ~config.port
        /\ CmdCode(s) = CommandEPRT /\ cmd[s].Arugment = <<>>
        /\ Codes(sent[s]) = <<"550">>

\* the listeners a step opens
Opened ==
    {p \in EphemeralPorts :
        listeners[p].state # "listening" /\ listeners'[p].state = "listening"}

\* the reply 227 that announces port p of the IPv4 wildcard address
PasvReply(p) ==
    newReply("227", <<"Entering Passive Mode (">>
                    \o <<"0", ",", "0", ",", "0", ",", "0", ",">>
                    \o FormatInt(p \div 256) \o <<",">> \o FormatInt(p % 256)
                    \o <<").">>)

\* C12: a PASV with the empty argument in a logged-in session with
\* pasv_enabled, when the listener opens and its host is IPv4, makes that
\* listener the passive data channel and is answered 227 with the listener's
\* port as p1,p2; 421 is written only when the host is not IPv4 or the
\* listener could not be opened.
C12_PasvReply ==
    [][\A s \in Sess :
        (Returns(s) /\ cmd[s].err = "" /\ LoggedIn(s) /\ config.pasv
         /\ CmdCode(s) = CommandPASV /\ cmd[s].Arugment = <<>>) =>
            /\ (Opened # {} /\ ~ipv6) =>
                  \E p \in Opened :
                      /\ h'[s].dataConn =
                             serverPassiveDataConn(p, ControlHost(s))
                      /\ sent'[s] = <<PasvReply(p)>>
            /\ HasCode(sent'[s], "421") => (Opened = {} \/ ipv6)]_vars

\* the reply 229 that announces port p
EpsvReply(p) ==
    newReply("229", <<"Entering Extended Passive Mode (|||">>
                    \o FormatInt(p) \o <<"|).">>)

\* the commands that set the data channel up
ChannelCommands == {CommandPORT, CommandEPRT, CommandPASV, CommandEPSV}

\* C13: an EPSV with the empty argument in a logged-in session with
\* pasv_enabled, when a listener can be opened, opens exactly one new
\* listener, makes it the passive data channel of the session and is
\* answered 229 with exactly the port of that listener (when none can be
\* opened it is answered 421 and nothing changes); the data channel then
\* stays until the next PORT, EPRT, PASV or EPSV, and a LIST or RETR on a
\* passive data channel accepts on the listener of that data channel.
C13_EpsvReply ==
    /\ [][\A s \in Sess :
            (Returns(s) /\ cmd[s].err = "" /\ LoggedIn(s) /\ config.pasv
             /\ CmdCode(s) = CommandEPSV /\ cmd[s].Arugment = <<>>) =>
                \/ /\ Opened = {}
                   /\ Codes(sent'[s]) = <<"421">>
                   /\ h'[s] = h[s] /\ listeners' = listeners
                \/ \E p \in Opened :
                       /\ Opened = {p}
                       /\ p # h[s].dataConn.ln
                       /\ h'[s].dataConn =
                              serverPassiveDataConn(p, ControlHost(s))
                       /\ sent'[s] = <<EpsvReply(p)>>]_vars
    /\ [][\A s \in Sess :
            (pc[s] \in {"read", "handle", "xfer"}
             /\ h'[s].dataConn # h[s].dataConn) =>
                /\ Returns(s) /\ cmd[s].err = ""
                /\ CmdCode(s) \in ChannelCommands]_vars
    /\ [][\A s \in Sess :
            (pc[s] = "xfer" /\ pc'[s] = "read"
             /\ h[s].dataConn.type = "passive") =>
                /\ xfer'[s].mode = "passive"
                /\ xfer'[s].ln = h[s].dataConn.ln]_vars

\* C13 witness: an EPSV opened a second listener beside the one of the
\* session's start, made it the data channel and announced its port
C13_Witness ==
    \E s \in Sess, p \in EphemeralPorts :
        /\ Handled(s) /\ CmdCode(s) = CommandEPSV
        /\ sent[s] = <<EpsvReply(p)>>
        /\ h[s].dataConn = serverPassiveDataConn(p, ControlHost(s))
        /\ listeners[p].state = "listening"
        /\ \E q \in EphemeralPorts \ {p} : listeners[q].state = "listening"

\* the fields of an EPRT argument delimited by "|"
EprtFields(arg) == Split(Trim(arg, {"|"}), "|")

\* the reply code the EPRT argument arg is to be answered with when it cannot
\* be used: 522 for a protocol field other than 1 and 2, 501 for the empty
\* argument and for a wrong number of fields, "" for an argument that parses
EprtErrorCode(arg) ==
    IF arg = <<>> \/ Len(EprtFields(arg)) # 3 THEN "501"
    ELSE IF EprtFields(arg)[1] \notin {<<"1">>, <<"2">>} THEN "522"
    ELSE ""

\* C14: in a logged-in session with port_enabled, an EPRT whose protocol
\* field is neither 1 nor 2 is answered with the one reply 522, and an EPRT
\* with a wrong number of fields or with the empty argument with the one
\* reply 501; the process does not die of it, the data channel is unchanged
\* and the session reads the next command.
C14_EprtErrors ==
    [][\A s \in Sess :
        (pc[s] = "handle" /\ cmd[s].err = "" /\ LoggedIn(s) /\ config.port
         /\ CmdCode(s) = CommandEPRT
         /\ EprtErrorCode(cmd[s].Arugment) # "") =>
            /\ crashed' = crashed
            /\ Returns(s) =>
                  /\ Codes(sent'[s]) = <<EprtErrorCode(cmd[s].Arugment)>>
                  /\ h'[s].dataConn = h[s].dataConn
                  /\ pc'[s] = "read"]_vars

\* the 13 command codes the server knows
Recognized == DOMAIN initCommandTable

\* C15: a line whose code is none of the 13 recognized codes and a line that
\* does not match the command syntax are answered with the one reply 500,
\* leave the handler struct (username, login state, cwd, data channel) as it
\* was, and the session reads the next command; in particular no line that
\* is read kills the process.
C15_Unrecognized500 ==
    /\ [][\A s \in Sess :
            (Returns(s)
             /\ \/ cmd[s].err = "unparseable"
                \/ cmd[s].err = "" /\ CmdCode(s) \notin Recognized) =>
                /\ Codes(sent'[s]) = <<"500">>
                /\ h'[s] = h[s]
                /\ listeners' = listeners
                /\ pc'[s] = "read"]_vars
    /\ [][\A s \in Sess :
            (pc[s] = "read" /\ ~crashed) => ~crashed']_vars

\* C16: a USER with the empty argument is answered with the one reply 501,
\* and a PASS received while the username is empty with the one reply 503;
\* username, logged-in flag and command table are after the reply what they
\* were before the command, and the session reads the next command.
C16_LoginErrorsFrame ==
    [][\A s \in Sess :
        (Returns(s) /\ cmd[s].err = ""
         /\ \/ CmdCode(s) = CommandUSER /\ cmd[s].Arugment = <<>>
            \/ CmdCode(s) = CommandPASS /\ h[s].username = <<>>) =>
            /\ sent'[s] = <<IF CmdCode(s) = CommandUSER THEN Reply501
                            ELSE Reply503>>
            /\ h'[s].username = h[s].username
            /\ h'[s].isLoggedIn = h[s].isLoggedIn
            /\ h'[s].commands = h[s].commands
            /\ pc'[s] = "read"]_vars

\* C16 witness: a USER with the empty argument was answered 501 while alice
\* was the pending username, and alice still is
C16_Witness ==
    \E s \in Sess :
        /\ Handled(s) /\ CmdCode(s) = CommandUSER /\ cmd[s].Arugment = <<>>
        /\ sent[s] = <<Reply501>>
        /\ h[s].username = <<"alice">> /\ ~h[s].isLoggedIn
        /\ h[s].commands = initCommandTable

\* C17: the cwd of a live session is an absolute path in canonical form; a
\* CWD answered 250 sets it to the canonical form of its argument resolved
\* against the previous cwd, for relative and absolute arguments alike, a
\* CWD answered 550 leaves it as it was, and PWD reports it.
C17_CwdCanonical ==
    /\ [](\A s \in Sess :
            pc[s] \in {"read", "handle", "xfer"} =>
                IsAbs(h[s].dir) /\ Clean(h[s].dir) = h[s].dir)
    /\ [][\A s \in Sess :
            (Returns(s) /\ cmd[s].err = "" /\ LoggedIn(s)
             /\ CmdCode(s) = CommandCWD) =>
                LET a == cmd[s].Arugment
                    target == IF IsAbs(a) THEN a
                              ELSE h[s].dir \o <<"/">> \o a
                IN  \/ /\ Codes(sent'[s]) = <<"250">>
                       /\ h'[s].dir = Clean(target)
                    \/ /\ Codes(sent'[s]) = <<"550">>
                       /\ h'[s].dir = h[s].dir]_vars
    /\ [][\A s \in Sess :
            (Returns(s) /\ cmd[s].err = "" /\ LoggedIn(s)
             /\ CmdCode(s) = CommandPWD /\ cmd[s].Arugment = <<>>) =>
                sent'[s] = <<newReply("257", <<"\"">> \o h[s].dir
                               \o <<"\" is the current directory.">>)>>]_vars

\* C18: for an IPv4 dotted quad a.b.c.d and a port in 0..65535,
\* getPORTString returns a,b,c,d,p1,p2 with p1 = port div 256 and
\* p2 = port mod 256, and hostPortToAddr of that returns a.b.c.d:port.
C18_PortRoundTrip ==
    (calc.fn = "PORT" /\ calc.stage >= 1) =>
        LET hst == calc.host
            p == ScanInt(calc.port)
        IN  /\ p \in 0..MaxUint16
            /\ ~calc.arg.err
            /\ calc.arg.str =
                 <<hst[1], ",", hst[3], ",", hst[5], ",", hst[7], ",",
                   ToString(p \div 256), ",", ToString(p % 256)>>
            /\ calc.stage = 2 =>
                 /\ calc.out.err = ""
                 /\ calc.out.addr = hst \o <<":">> \o calc.port

\* C18 witness: the round trip of the client's host with port 65535
C18_Witness ==
    /\ calc.fn = "PORT" /\ calc.stage = 2
    /\ calc.host = ClientHost /\ calc.port = <<"65535">>
    /\ calc.arg.str = <<"10", ",", "0", ",", "0", ",", "5", ",",
                        "255", ",", "255">>
    /\ calc.out.addr = ClientHost \o <<":", "65535">>

\* the text of host:port with an IPv6 host in brackets
HostPort(hst, port) ==
    IF hst \in Hosts6 THEN <<"[">> \o hst \o <<"]", ":">> \o port
    ELSE hst \o <<":">> \o port

\* C19: for an IPv4 or IPv6 literal host and a port, parseEPRTArg of
\* getEPRTString(host, port) returns host:port, except that the IPv6
\* loopback ::1 is sent as 127.0.0.1 with protocol 1 and comes back as
\* 127.0.0.1:port; the protocol field is 1 for IPv4 and 2 for IPv6.
C19_EprtRoundTrip ==
    (calc.fn = "EPRT" /\ calc.stage >= 1) =>
        LET hst == calc.host
            proto == IF hst \in Hosts4 \cup Loopback6 THEN "1" ELSE "2"
            sentHost == IF hst \in Loopback6 THEN Localhost4 ELSE hst
        IN  /\ ~calc.arg.err
            /\ calc.arg.str = <<"|", proto, "|">> \o sentHost \o <<"|">>
                              \o calc.port \o <<"|">>
            /\ calc.stage = 2 =>
                 /\ calc.out.err = ""
                 /\ calc.out.addr = HostPort(sentHost, calc.port)

\* C19 witness: the round trip of ::1 came back as 127.0.0.1
C19_Witness ==
    /\ calc.fn = "EPRT" /\ calc.stage = 2
    /\ calc.host = <<":", ":", "1">> /\ calc.port = <<"50000">>
    /\ calc.arg.str = <<"|", "1", "|">> \o Localhost4 \o <<"|", "50000", "|">>
    /\ calc.out.addr = Localhost4 \o <<":", "50000">>

\* C20: the serialized form of a reply whose message has no newline is the
\* code, a space and the message; that of a reply whose message has a
\* newline anywhere begins with the code, "-" and CRLF, has a TAB at the
\* start of every message line and ends with a line that starts with the
\* code and a space; no serialized form has an LF that does not follow a CR.
C20_ReplySerialization ==
    (calc.fn = "String" /\ calc.stage = 2) =>
        LET r == calc.reply
            c == r.StatusCode
            t == calc.text
            k == LastIndexByte(t, "LF")
        IN  /\ ~Contains(r.Message, "LF") => t = <<c, " ">> \o r.Message
            /\ Contains(r.Message, "LF") =>
                 /\ Len(t) >= 4 /\ SubSeq(t, 1, 4) = <<c, "-", "CR", "LF">>
                 /\ k + 2 <= Len(t) /\ t[k + 1] = c /\ t[k + 2] = " "
                 /\ \A i \in 4..(k - 1) : t[i] = "LF" => t[i + 1] = "TAB"
            /\ \A i \in 1..Len(t) :
                 t[i] = "LF" => (i > 1 /\ t[i - 1] = "CR")

\* C21: every line the client wrote on the control connection is handled,
\* once and in the order sent: whenever a read takes lines off the
\* connection it takes exactly the oldest one and hands that one to handle,
\* also when more lines are waiting; no line is dropped (the lines after a
\* QUIT, which ends the session, are left aside).
C21_NoLineDropped ==
    [][\A s \in Sess :
          Len(wire'[s]) < Len(wire[s]) =>
              /\ cmd'[s] = readCommand(Head(wire[s]))
              /\ pc'[s] = "handle"
              /\ \/ wire'[s] = Tail(wire[s])
                 \/ ToUpper(cmd'[s].Code) = CommandQUIT]_vars

\* C22: once a session is closed (after QUIT, EOF, timeout or an I/O
\* error) no passive listener it opened, at session start or by PASV/EPSV,
\* is still listening.
C22_ListenersClosedAtTeardown ==
    \A s \in Sess :
        pc[s] = "closed" =>
            \A p \in EphemeralPorts :
                ~(listeners[p].state = "listening" /\ listeners[p].owner = s)

\* C23: when reading the control connection fails with an I/O error other
\* than EOF, the handler eventually closes the connection and stops.
C23_ReadErrorEndsSession ==
    \A s \in Sess : connErr[s] ~> (pc[s] = "closed" /\ ~connOpen[s])

\* C25: every reply 150 written for a LIST or RETR is eventually followed by
\* the terminal reply 226 or 451 on the same session, in active and in
\* passive mode, also when the client never opens the data connection, and
\* the session is then back at reading commands.
C25_TransferTerminates ==
    \A s \in Sess :
        (pc[s] = "xfer" /\ HasCode(sent[s], "150"))
            ~> (pc[s] = "read" /\ (HasCode(sent[s], "226")
                                   \/ HasCode(sent[s], "451")))

C26_DataChannelConfigured ==
    \A s \in Sess :
        pc[s] \in {"read", "handle", "xfer"} =>
            \/ /\ h[s].dataConn.type = "passive"
               /\ listeners[h[s].dataConn.ln].state = "listening"
            \/ /\ h[s].dataConn.type = "active"
               /\ h[s].dataConn.address # <<>>

\* C27: hostPortToAddr, and with it the PORT handler, rejects (reply 501)
\* every argument that has not exactly six comma-separated fields and every
\* argument with an address octet or a port byte outside 0..255; for every
\* accepted argument a,b,c,d,p1,p2 the active data channel's target is
\* a.b.c.d with port p1*256+p2 and the reply is 200.
C27_PortValidation ==
    (calc.fn = "HandlePORT" /\ calc.stage = 2) =>
        LET portFields == IF calc.port = <<>> THEN <<>>
                          ELSE Split(calc.port, ",")
            fields == Split(calc.host, ".") \o portFields
            valid == /\ Len(fields) = 6
                     /\ \A i \in 1..6 : ScanInt(fields[i]) \in 0..255
            p == ScanInt(portFields[1]) * 256 + ScanInt(portFields[2])
            target == calc.host \o <<":">> \o FormatInt(p)
        IN  IF valid
            THEN /\ calc.out.err = ""
                 /\ calc.out.addr = target
                 /\ calc.reply.StatusCode = "200"
                 /\ calc.chan = target
            ELSE /\ calc.out.err # ""
                 /\ calc.reply.StatusCode = "501"
                 /\ calc.chan = <<>>

\* C28: EPRT parsing takes the delimiter from the first byte of the
\* argument: for every delimiter d the argument d proto d addr d port d
\* with proto 1 or 2 is parsed to addr:port, the data channel becomes active
\* with that target and the reply is 200, whichever character d is.
C28_EprtAnyDelimiter ==
    (calc.fn = "HandleEPRT" /\ calc.stage = 2) =>
        /\ calc.out.err = ""
        /\ calc.out.addr = HostPort(calc.host, calc.port)
        /\ calc.reply.StatusCode = "200"
        /\ calc.chan = HostPort(calc.host, calc.port)

\* C29: for every reply the server serializes and writes, single-line or
\* multi-line, also with message lines that begin with three digits and a
\* space, readReply consumes exactly the lines of that one reply and
\* returns its status code; a first line that matches neither "NNN " nor
\* "NNN-" yields a protocol error.
C29_ReplyFramingRoundTrip ==
    (calc.fn = "readReply" /\ calc.stage = 2) =>
        IF calc.reply.StatusCode = ""
        THEN calc.out.err = "malformed"
        ELSE /\ calc.out.err = ""
             /\ calc.rply.StatusCode = calc.reply.StatusCode
             /\ calc.parsed = String(calc.reply) \o CRLF
             /\ calc.rest = calc.next

\* the data channel of the command being executed is ready: the listener is
\* open and PORT or EPRT was answered 200, or PASV or EPSV was answered and
\* the dial succeeded
DataChannelReady(c) ==
    IF c.dataConnType = "active"
    THEN c.listener /\ c.answer = "200"
    ELSE c.answer \in {"227", "229"} /\ c.dialed

\* C30: for ls and get the client writes LIST or RETR only in a step after
\* which the data channel of that command is ready (active: its listener is
\* open and PORT/EPRT was answered 200; passive: PASV/EPSV was answered and
\* the dial succeeded), and it waits for the replies of a transfer only with
\* a ready data channel; a command whose setup failed writes no LIST or RETR
C30_TransferAfterDataChannel ==
    [][/\ (/\ client'.written # client.written
           /\ client'.written[Len(client'.written)]
                 \in {CommandLIST, CommandRETR})
          => /\ DataChannelReady(client')
             /\ client'.written[Len(client'.written)]
                   = TransferCode(client'.kind)
             /\ client.n = client'.n
             /\ client.pc = "setup"
       /\ client'.pc \in {"reply1", "reply2"} => DataChannelReady(client')
       /\ (client.pc = "setup" /\ ~DataChannelReady(client'))
          => client'.written = client.written]_vars

\* the client has listed over an active data channel, has given up a PASV
\* setup without a RETR, and has then written RETR over a dialled EPSV one
C30_Witness ==
    /\ client.written = <<CommandPORT, CommandLIST, CommandPASV,
                          CommandEPSV, CommandRETR>>
    /\ client.pc = "reply1"
    /\ client.dialed

\* C31: the classification of the reply that ends a transfer is the same for
\* ls and get: on 226, 250, 425, 426, 451 and 550 the client returns to the
\* prompt, on any other code it exits
C31_TerminalReplyClassification ==
    [][(client.pc = "reply2" /\ client' # client
        /\ client'.rply.StatusCode # "")
       => IF client'.rply.StatusCode
                \in {"226", "250", "425", "426", "451", "550"}
          THEN client'.pc = "prompt"
          ELSE client'.pc = "exited"]_vars

\* the status codes 500..599
FiveHundreds == {ToString(n) : n \in 500..599}

\* C32: on the reply to LIST or RETR the client goes on to read the data
\* channel if the code is 125 or 150 (and then waits for the terminal reply
\* or, if the data read fails, returns to the prompt), returns to the
\* prompt without waiting for a terminal reply if it is 450 or any 5xx code,
\* and exits on no code of these two groups
C32_IntermediateReplyClassification ==
    [][(client.pc = "reply1" /\ client' # client
        /\ client'.rply.StatusCode # "")
       => /\ client'.rply.StatusCode \in {"125", "150"}
                => client'.pc \in {"reply2", "prompt"}
          /\ client'.rply.StatusCode \in {"450"} \cup FiveHundreds
                => client'.pc = "prompt"
          /\ client'.pc = "reply2"
                => client'.rply.StatusCode \in {"125", "150"}]_vars

\* C33: the data-setup command the client writes is the extended form (EPRT
\* in active mode, EPSV in passive mode) if extended is on or the address of
\* the control connection is IPv6, and the legacy form (PORT, PASV) if
\* extended is off and the address is IPv4
C33_SetupCommandChoice ==
    [][(client.pc = "prompt" /\ client'.pc = "setup")
       => LET code == client'.written[Len(client'.written)]
              ip == ParseIP(SplitHostPort(client.localAddr).host)
          IN  /\ Len(client'.written) = Len(client.written) + 1
              /\ code = IF client.extended \/ ip = "v6"
                        THEN IF client.dataConnType = "active"
                             THEN CommandEPRT ELSE CommandEPSV
                        ELSE IF client.dataConnType = "active"
                             THEN CommandPORT ELSE CommandPASV]_vars

\* C34: in passive mode, after the 227 reply to PASV whose message holds
\* (a,b,c,d,p1,p2) the address the client dials is a.b.c.d with port
\* p1*256+p2, read from the parenthesized part of the message only, and
\* after the 229 reply to EPSV whose message holds (|||P|) it is the remote
\* host of the control connection with port P
C34_PassiveEndpoint ==
    [][(client.pc = "setup" /\ client.dataConnType = "passive"
        /\ client' # client)
       => LET code == client.written[Len(client.written)]
              msg == client'.rply.Message
              pasv == parsePASVString(msg)
              epsv == parseEPSVString(msg)
          IN  /\ (/\ code = CommandPASV
                  /\ client'.rply.StatusCode = "227"
                  /\ pasv.err = "")
                 => client'.addr = pasv.addr
              /\ (/\ code = CommandEPSV
                  /\ client'.rply.StatusCode = "229"
                  /\ ~epsv.err)
                 => client'.addr
                       = JoinHostPort(SplitHostPort(ServerAddr).host,
                                      epsv.port)]_vars

\* C36: no line a client sends ends the server process: no step leaves the
\* process dead of a panic; and the handling of every command that was read
\* ends with at least one numeric reply on its session, which goes on
\* unless the command was QUIT
C36_CrashIsolation ==
    [][/\ ~crashed'
       /\ \A s \in Sess :
            Returns(s) => /\ sent'[s] # <<>>
                          /\ pc'[s] = "closed"
                                => CmdCode(s) = CommandQUIT]_vars

\* C37: the client matches the first token of the line typed without regard
\* to letter case and hands the argument token to the FTP command as typed:
\* 'cd X' writes CWD X, 'get X' writes RETR X, 'ls X' writes LIST X, and
\* 'ls' alone writes LIST with the empty argument
C37_ArgumentForwarded ==
    (calc.fn = "executeCommand" /\ calc.stage = 2)
    => LET toks == Split(calc.text, " ")
           first == ToLower(toks[1])
       IN  /\ (first = <<"cd">> /\ Len(toks) = 2)
                => calc.command = newCommand(CommandCWD, toks[2])
           /\ (first = <<"get">> /\ Len(toks) = 2)
                => calc.command = newCommand(CommandRETR, toks[2])
           /\ (first = <<"ls">> /\ Len(toks) = 2)
                => calc.command = newCommand(CommandLIST, toks[2])
           /\ (first = <<"ls">> /\ Len(toks) = 1)
                => calc.command = newCommand(CommandLIST, <<>>)

\* C35: whatever the interleaving of the server's writes on the control
\* connection with the client's reads, a readReply of the client takes off
\* the connection the lines of the reply it returns and no other line, and a
\* client that waits for the reply that ends a transfer has that reply in
\* its receive buffer or the server has yet to write it, so that the client
\* obtains both replies
C35_NoReplyLost ==
    [][/\ (/\ client.pc \in {"setup", "reply1", "reply2"}
           /\ client.inbox # <<>>
           /\ client'.pc # client.pc)
          => client.inbox = readReply(client.inbox).parsed \o client'.inbox
       /\ (client'.pc = "reply2" /\ client'.inbox = <<>>)
          => pc'[ClientSess] = "xfer"]_vars

====
